---- MODULE Spec2Model ----
(***************************************************************************)
(* Module Rules engine of hooks/lib/module-rules.ts: the cascade merge of  *)
(* the user and project reference catalogs (mergeIndices), the trigger     *)
(* evaluation (detectModules) and the budgeted assembly (loadReferences).  *)
(*                                                                         *)
(* JavaScript values are represented as follows.                           *)
(*   - an object is a function whose DOMAIN is the set of keys it has; a   *)
(*     missing key is a key outside the DOMAIN;                            *)
(*   - a ReferenceIndex is [isNull |-> FALSE, entries |-> seq] where seq   *)
(*     lists the <<key, entry>> pairs in Object.entries order, and null is *)
(*     [isNull |-> TRUE];                                                  *)
(*   - text that the code searches or case-folds (keywords, prompt,        *)
(*     package names, requirements.txt) is a sequence of characters;       *)
(*     keys, paths and descriptions, which the code only copies and        *)
(*     compares, are TLA+ strings.                                         *)
(***************************************************************************)
EXTENDS FiniteSets, Integers, Sequences, TLC

VARIABLES
    pc,             \* position of the detection cycle
    userIndex,      \* catalog loaded from the user directory, or Null
    projectIndex,   \* catalog loaded from the project directory, or Null
    mergedIndex,    \* value returned by mergeIndices
    cwd,            \* the working tree detectModules looks at
    prompt,         \* the optional session prompt
    detected,       \* value returned by detectModules / argument of loadReferences
    idx,            \* position of the for loop of loadReferences (1-based)
    totalTokens,    \* loadReferences: let totalTokens
    loadedContent,  \* loadReferences: const loadedContent
    loadedModules,  \* loadReferences: const loadedModules
    events,         \* console.error lines and readFileSync calls of loadReferences
    content,        \* value returned by loadReferences
    userDir,        \* <userDir>/references on disk
    projectDir,     \* <projectDir>/references on disk
    fileReads,      \* reference documents read in full by scanReferencesDirectory
    exception,      \* where the exception being propagated was thrown, or "none"
    result,         \* value returned by detectAndLoadModuleRules
    args,           \* arguments of a function called on its own
    returned,       \* what that call returned
    stateFile,      \* AutoDocs: the contents of .autodocs-state.json
    docFiles,       \* AutoDocs: README.md and docs/ARCHITECTURE.md on disk
    clock,          \* AutoDocs: new Date()
    lastGenerated,  \* AutoDocs: when and with what hash each document was last generated
    changes         \* AutoDocs: the last result of detectChanges

vars == <<pc, userIndex, projectIndex, mergedIndex, cwd, prompt, detected,
          idx, totalTokens, loadedContent, loadedModules, events, content,
          userDir, projectDir, fileReads, exception, result,
          args, returned, stateFile, docFiles, clock, lastGenerated, changes>>

mergeVars  == <<userIndex, projectIndex, mergedIndex>>
detectVars == <<cwd, prompt>>
loadVars   == <<idx, totalTokens, loadedContent, loadedModules, events, content>>
dirVars    == <<userDir, projectDir, fileReads>>
callVars   == <<args, returned>>
autoDocsVars == <<stateFile, docFiles, clock, lastGenerated, changes>>

(***************************************************************************)
(* Constants of the program and bounds of the model                        *)
(***************************************************************************)
MAX_TOTAL_TOKENS == 8000

MaxDetected == 4    \* longest list handed to loadReferences
MaxEntries  == 2    \* most entries in one catalog

Null == [isNull |-> TRUE]
Catalog(entries) == [isNull |-> FALSE, entries |-> entries]

\* the optional prompt argument
NoPrompt == [given |-> FALSE]
Prompt(text) == [given |-> TRUE, text |-> text]

\* keys of catalog entries, in a fixed enumeration
AllNames == <<"auth", "legacy", "db", "api", "ui", "cache">>

(***************************************************************************)
(* Text: a string is a sequence of characters                              *)
(***************************************************************************)
UpperToLower == [A |-> "a", J |-> "j", O |-> "o", T |-> "t", W |-> "w"]

\* String.prototype.toLowerCase
ToLowerCase(s) ==
    [i \in 1..Len(s) |-> IF s[i] \in DOMAIN UpperToLower THEN UpperToLower[s[i]] ELSE s[i]]

\* String.prototype.includes
Includes(hay, needle) ==
    \E i \in 0..(Len(hay) - Len(needle)) : SubSeq(hay, i + 1, i + Len(needle)) = needle

EmptyString == <<>>
Login == <<"l", "o", "g", "i", "n">>
OAuth == <<"O", "A", "u", "t", "h">>
Oauth == <<"o", "a", "u", "t", "h">>
Jwt   == <<"j", "w", "t">>
JWT   == <<"J", "W", "T">>
Orm   == <<"o", "r", "m">>

\* a value of type string | null: <<>> is null, <<s>> is the string s
None == <<>>
Some(s) == <<s>>
\* if (value): null and the empty string are falsy
TruthyString(v) == v # None /\ v[1] # EmptyString

Min(S) == CHOOSE x \in S : \A y \in S : x <= y

\* the element a loop over list returns at the first position in hits, else
\* null
FirstAt(list, hits) == IF hits = {} THEN None ELSE Some(list[Min(hits)])

\* a catch block that lets the exception go on
TryCatch_Rethrow(thrown) == thrown

\* try { ... } catch { }: whether an exception thrown inside the try block
\* leaves the statement; the catch blocks of the check functions swallow it
TryCatch(thrown) == FALSE

(***************************************************************************)
(* mergeIndices                                                            *)
(***************************************************************************)
TriggerKinds == {"filePatterns", "imports", "dependencies", "keywords"}

\* obj[field] used as a condition: a missing key (undefined) and false are falsy
Truthy(obj, field) == field \in DOMAIN obj /\ obj[field] = TRUE

\* (list || [])
OrEmpty(obj, field) == IF field \in DOMAIN obj THEN obj[field] ELSE <<>>

\* { ...ref, triggers: triggers }
SpreadWithTriggers(ref, triggers) ==
    [f \in DOMAIN ref \cup {"triggers"} |-> IF f = "triggers" THEN triggers ELSE ref[f]]

\* name in merged / merged[name] / delete merged[name] / merged[name] = ref,
\* on the list of <<key, entry>> pairs of an object: an assignment to an
\* existing key keeps its place, a new key goes last
HasKey(entries, name) == \E i \in 1..Len(entries) : entries[i].key = name
Get(entries, name) == entries[CHOOSE i \in 1..Len(entries) : entries[i].key = name].ref
RECURSIVE Delete(_, _)
Delete(entries, name) ==
    IF entries = <<>> THEN <<>>
    ELSE IF Head(entries).key = name THEN Delete(Tail(entries), name)
    ELSE <<Head(entries)>> \o Delete(Tail(entries), name)

\* an assignment that only replaces: a key the object lacks is not added
Assign_ExistingOnly(entries, name, ref) ==
    [i \in 1..Len(entries) |->
        IF entries[i].key = name THEN [key |-> name, ref |-> ref] ELSE entries[i]]

\* obj[name] = ref: an existing key keeps its place, a new key goes last
Assign(entries, name, ref) ==
    IF HasKey(entries, name)
    THEN [i \in 1..Len(entries) |->
            IF entries[i].key = name THEN [key |-> name, ref |-> ref] ELSE entries[i]]
    ELSE Append(entries, [key |-> name, ref |-> ref])

\* the four lists with the project list in front
mergeTriggers_ProjectFirst(userTriggers, projectTriggers) ==
    [k \in TriggerKinds |-> OrEmpty(projectTriggers, k) \o OrEmpty(userTriggers, k)]

mergeTriggers(userTriggers, projectTriggers) ==
    [k \in TriggerKinds |-> OrEmpty(userTriggers, k) \o OrEmpty(projectTriggers, k)]

\* the existing entry spread under the project entry: { ...existing, ...projectRef }
AdditiveMerge_OverUser(existing, projectRef) ==
    [f \in DOMAIN existing \cup DOMAIN projectRef |->
        IF f = "triggers" THEN mergeTriggers(existing.triggers, projectRef.triggers)
        ELSE IF f \in DOMAIN projectRef THEN projectRef[f] ELSE existing[f]]

\* { ...projectRef, triggers: mergeTriggers(merged[name].triggers, projectRef.triggers) }
AdditiveMerge(existing, projectRef) ==
    SpreadWithTriggers(projectRef, mergeTriggers(existing.triggers, projectRef.triggers))

\* the loop body with the disabled test after the insertion test
MergeStep_DisabledLast(merged, name, projectRef) ==
    IF ~HasKey(merged, name) \/ Truthy(projectRef, "overrideTriggers")
    THEN Assign(merged, name, projectRef)
    ELSE IF Truthy(projectRef, "disabled")
    THEN Delete(merged, name)
    ELSE Assign(merged, name, AdditiveMerge(Get(merged, name), projectRef))

\* the loop body without the overrideTriggers test
MergeStep_NoOverride(merged, name, projectRef) ==
    IF Truthy(projectRef, "disabled")
    THEN Delete(merged, name)
    ELSE IF HasKey(merged, name)
    THEN Assign(merged, name, AdditiveMerge(Get(merged, name), projectRef))
    ELSE Assign(merged, name, projectRef)

\* the body of for (const [name, projectRef] of Object.entries(projectIndex))
MergeStep(merged, name, projectRef) ==
    IF Truthy(projectRef, "disabled")
    THEN Delete(merged, name)
    ELSE IF HasKey(merged, name) /\ ~Truthy(projectRef, "overrideTriggers")
    THEN Assign(merged, name, AdditiveMerge(Get(merged, name), projectRef))
    ELSE Assign(merged, name, projectRef)

RECURSIVE MergeLoop(_, _)
MergeLoop(merged, projectEntries) ==
    IF projectEntries = <<>> THEN merged
    ELSE MergeLoop(MergeStep(merged, Head(projectEntries).key, Head(projectEntries).ref),
                   Tail(projectEntries))

\* the merge starting from an empty object when there is a project catalog
mergeIndices_FromEmpty(user, project) ==
    IF project.isNull
    THEN Catalog(IF user.isNull THEN <<>> ELSE user.entries)
    ELSE Catalog(MergeLoop(<<>>, project.entries))

mergeIndices(user, project) ==
    LET merged == IF user.isNull THEN <<>> ELSE user.entries
    IN  IF project.isNull
        THEN Catalog(merged)
        ELSE Catalog(MergeLoop(merged, project.entries))

\* mergeTriggers reads userTriggers.filePatterns and projectTriggers.filePatterns:
\* a TypeError when an entry of the additive case has no triggers object
mergeIndicesThrows(user, project) ==
    /\ ~user.isNull /\ ~project.isNull
    /\ \E i \in 1..Len(project.entries) :
          /\ ~Truthy(project.entries[i].ref, "disabled")
          /\ ~Truthy(project.entries[i].ref, "overrideTriggers")
          /\ HasKey(user.entries, project.entries[i].key)
          /\ \/ "triggers" \notin DOMAIN project.entries[i].ref
             \/ "triggers" \notin DOMAIN Get(user.entries, project.entries[i].key)

\* const merged = userIndex || {}: the loop writing into the user catalog itself
userIndexAfterMerge_NoCopy(user, project) ==
    IF user.isNull \/ mergeIndicesThrows(user, project) THEN user
    ELSE mergeIndices(user, project)

\* the user catalog once mergeIndices has returned: line 217 spreads it into a
\* new object, which is the only object the loop deletes from and assigns to
userIndexAfterMerge(user, project) == user

\* the project catalog once mergeIndices has returned: its entries are read,
\* spread and stored, never assigned to
projectIndexAfterMerge(user, project) == project

MergeIndices ==
    /\ pc = "merge"
    /\ IF mergeIndicesThrows(userIndex, projectIndex)
       THEN /\ pc' = "catch"
            /\ exception' = "mergeIndices"
            /\ UNCHANGED mergeVars
       ELSE /\ mergedIndex' = mergeIndices(userIndex, projectIndex)
            /\ userIndex' = userIndexAfterMerge(userIndex, projectIndex)
            /\ projectIndex' = projectIndexAfterMerge(userIndex, projectIndex)
            /\ pc' = "merged"
            /\ UNCHANGED exception
    /\ UNCHANGED <<detectVars, callVars, autoDocsVars, detected, loadVars, dirVars, result>>

(***************************************************************************)
(* The working tree                                                        *)
(***************************************************************************)
\* the files a working tree is made of: extension, whether the path contains
\* 'node_modules' or '.git', and the text of the file
FileInfo ==
    [p \in {"src/auth/login.ts", "src/auth/token.ts", "src/auth/a.ts", "src/auth/b.ts",
            "node_modules/jwt/index.js", "docs/auth.md"} |->
        CASE p = "src/auth/login.ts" ->
                 [ext |-> "ts", inExcludedDir |-> FALSE,
                  text |-> <<"i", "m", "p", "o", "r", "t", " ", "j", "w", "t">>]
          [] p = "src/auth/token.ts" ->
                 [ext |-> "ts", inExcludedDir |-> FALSE, text |-> <<"t", "o", "k">>]
          [] p = "src/auth/a.ts" ->
                 [ext |-> "ts", inExcludedDir |-> FALSE, text |-> <<"a">>]
          [] p = "src/auth/b.ts" ->
                 [ext |-> "ts", inExcludedDir |-> FALSE, text |-> EmptyString]
          [] p = "node_modules/jwt/index.js" ->
                 [ext |-> "js", inExcludedDir |-> TRUE, text |-> Jwt]
          [] p = "docs/auth.md" ->
                 [ext |-> "md", inExcludedDir |-> FALSE, text |-> Orm]]

\* the paths a glob pattern matches (new Glob(pattern).scan)
GlobTable ==
    [g \in {"src/auth/**", "**/*.ts", "**/jwt/**", "docs/**", "", "[bad"} |->
        CASE g = "src/auth/**" ->
                 {"src/auth/login.ts", "src/auth/token.ts", "src/auth/a.ts", "src/auth/b.ts"}
          [] g = "**/*.ts" ->
                 {"src/auth/login.ts", "src/auth/token.ts", "src/auth/a.ts", "src/auth/b.ts"}
          [] g = "**/jwt/**" -> {"node_modules/jwt/index.js"}
          [] g = "docs/**" -> {"docs/auth.md"}
          [] OTHER -> {}]

\* the patterns for which new Glob(pattern) or its scan throws
InvalidPatterns == {"[bad"}

\* --include=*.ts --include=*.tsx --include=*.js --include=*.jsx --include=*.py
GrepExtensions == {"ts", "tsx", "js", "jsx", "py"}

\* package.json and requirements.txt of the working directory
NoFile == [state |-> "absent"]
InvalidFile == [state |-> "invalid"]
PackageJson(deps) == [state |-> "ok", deps |-> deps]
RequirementsTxt(text) == [state |-> "ok", text |-> text]

Tree(files, grepFails, pkg, req) ==
    [files |-> files, grepFails |-> grepFails, pkg |-> pkg, req |-> req]

EmptyTree == Tree(<<>>, FALSE, NoFile, NoFile)

(***************************************************************************)
(* detectModules                                                           *)
(***************************************************************************)
Take(list, n) == SubSeq(list, 1, IF Len(list) < n THEN Len(list) ELSE n)

\* one pattern of checkFilePatterns: the scan, the node_modules/.git filter
\* and the limit of three
ScanPattern(pattern, tree) ==
    Take(SelectSeq(tree.files,
                   LAMBDA f : f \in GlobTable[pattern] /\ ~FileInfo[f].inExcludedDir), 3)

\* the loop without `if (matches.length > 0) break`: the next patterns go on
\* filling the same array up to the limit of three
RECURSIVE checkFilePatterns_NoBreak(_, _)
checkFilePatterns_NoBreak(patterns, tree) ==
    IF patterns = <<>> THEN <<>>
    ELSE IF Head(patterns) \in InvalidPatterns
    THEN checkFilePatterns_NoBreak(Tail(patterns), tree)
    ELSE Take(ScanPattern(Head(patterns), tree)
                \o checkFilePatterns_NoBreak(Tail(patterns), tree), 3)

\* for (const pattern of patterns): an invalid pattern throws into the empty
\* catch block, the first pattern with matches ends the loop
RECURSIVE checkFilePatterns(_, _)
checkFilePatterns(patterns, tree) ==
    IF patterns = <<>> THEN <<>>
    ELSE IF Head(patterns) \in InvalidPatterns
    THEN checkFilePatterns(Tail(patterns), tree)
    ELSE IF Len(ScanPattern(Head(patterns), tree)) > 0
    THEN ScanPattern(Head(patterns), tree)
    ELSE checkFilePatterns(Tail(patterns), tree)

\* the files grep -rlE prints: a file of an included extension with a line
\* that contains one of the (escaped, hence literal) patterns
GrepOutput(patterns, tree) ==
    SelectSeq(tree.files,
              LAMBDA f : /\ FileInfo[f].ext \in GrepExtensions
                         /\ FileInfo[f].text # EmptyString
                         /\ \E i \in 1..Len(patterns) : Includes(FileInfo[f].text, patterns[i]))

\* with a non-empty output the loop returns at its first iteration, because
\* patterns.some(pat => output.length > 0) holds
checkImports(patterns, tree) ==
    IF tree.grepFails THEN None
    ELSE IF GrepOutput(patterns, tree) # <<>> THEN Some(patterns[1])
    ELSE None

\* a catch block of package.json that returns null
checkDependencies_ManifestOnly(packages, tree) ==
    IF tree.pkg.state = "ok"
    THEN FirstAt(packages, {i \in 1..Len(packages) : packages[i] \in tree.pkg.deps})
    ELSE IF tree.pkg.state = "invalid" THEN None
    ELSE IF tree.req.state = "ok"
    THEN FirstAt(packages,
                 {i \in 1..Len(packages) :
                    Includes(ToLowerCase(tree.req.text), ToLowerCase(packages[i]))})
    ELSE None

\* package.json first (allDeps[pkgName]), then requirements.txt
\* (content.toLowerCase().includes(pkgName.toLowerCase()))
checkDependencies(packages, tree) ==
    LET inManifest ==
            IF tree.pkg.state = "ok"
            THEN FirstAt(packages, {i \in 1..Len(packages) : packages[i] \in tree.pkg.deps})
            ELSE None
        inRequirements ==
            IF tree.req.state = "ok"
            THEN FirstAt(packages,
                         {i \in 1..Len(packages) :
                            Includes(ToLowerCase(tree.req.text), ToLowerCase(packages[i]))})
            ELSE None
    IN  IF inManifest # None THEN inManifest ELSE inRequirements

checkKeywords(keywords, promptText) ==
    FirstAt(keywords,
            {i \in 1..Len(keywords) :
                Includes(ToLowerCase(promptText), ToLowerCase(keywords[i]))})

\* ref.triggers.<kind>?.length
HasLength(triggers, kind) == kind \in DOMAIN triggers /\ Len(triggers[kind]) > 0

\* the files string without slice(0, 2)
FilesEvidence_AllMatches(ref, tree) ==
    IF HasLength(ref.triggers, "filePatterns")
       /\ Len(checkFilePatterns(ref.triggers.filePatterns, tree)) > 0
    THEN <<<<"files", checkFilePatterns(ref.triggers.filePatterns, tree)>>>>
    ELSE <<>>

\* `files: ${fileMatches.slice(0, 2).join(', ')}`
FilesEvidence(ref, tree) ==
    IF HasLength(ref.triggers, "filePatterns")
       /\ Len(checkFilePatterns(ref.triggers.filePatterns, tree)) > 0
    THEN <<<<"files", Take(checkFilePatterns(ref.triggers.filePatterns, tree), 2)>>>>
    ELSE <<>>

ImportEvidence(ref, tree) ==
    IF HasLength(ref.triggers, "imports")
       /\ TruthyString(checkImports(ref.triggers.imports, tree))
    THEN <<<<"import", checkImports(ref.triggers.imports, tree)[1]>>>>
    ELSE <<>>

DependencyEvidence(ref, tree) ==
    IF HasLength(ref.triggers, "dependencies")
       /\ TruthyString(checkDependencies(ref.triggers.dependencies, tree))
    THEN <<<<"dependency", checkDependencies(ref.triggers.dependencies, tree)[1]>>>>
    ELSE <<>>

KeywordEvidence(ref, promptArg) ==
    IF HasLength(ref.triggers, "keywords")
       /\ promptArg.given /\ promptArg.text # EmptyString
       /\ TruthyString(checkKeywords(ref.triggers.keywords, promptArg.text))
    THEN <<<<"keyword", checkKeywords(ref.triggers.keywords, promptArg.text)[1]>>>>
    ELSE <<>>

\* const matchedTriggers, after the four checks
MatchedTriggers(ref, tree, promptArg) ==
    FilesEvidence(ref, tree) \o ImportEvidence(ref, tree)
        \o DependencyEvidence(ref, tree) \o KeywordEvidence(ref, promptArg)

DetectionResult(moduleName, ref, matchedTriggers) ==
    [module |-> moduleName, path |-> ref.path, priority |-> ref.priority,
     maxTokens |-> ref.maxTokens, triggers |-> matchedTriggers]

\* an entry pushed only when every kind it lists has matched
DetectEntry_AllKinds(moduleName, ref, tree, promptArg) ==
    IF /\ Len(MatchedTriggers(ref, tree, promptArg)) > 0
       /\ \A k \in TriggerKinds :
            HasLength(ref.triggers, k) =>
                \E i \in 1..Len(MatchedTriggers(ref, tree, promptArg)) :
                    MatchedTriggers(ref, tree, promptArg)[i][1]
                        = (CASE k = "filePatterns" -> "files" [] k = "imports" -> "import"
                             [] k = "dependencies" -> "dependency" [] OTHER -> "keyword")
    THEN <<DetectionResult(moduleName, ref, MatchedTriggers(ref, tree, promptArg))>>
    ELSE <<>>

\* one iteration of the loop over Object.entries(index)
DetectEntry(moduleName, ref, tree, promptArg) ==
    IF Len(MatchedTriggers(ref, tree, promptArg)) > 0
    THEN <<DetectionResult(moduleName, ref, MatchedTriggers(ref, tree, promptArg))>>
    ELSE <<>>

RECURSIVE DetectLoop(_, _, _)
DetectLoop(entries, tree, promptArg) ==
    IF entries = <<>> THEN <<>>
    ELSE DetectEntry(Head(entries).key, Head(entries).ref, tree, promptArg)
            \o DetectLoop(Tail(entries), tree, promptArg)

\* the comparator with its operands exchanged: a.priority - b.priority
ComparePriority_Ascending(a, b) == a.priority - b.priority

\* (a, b) => b.priority - a.priority
ComparePriority(a, b) == b.priority - a.priority

\* a sort that is not stable: r goes in front of the elements it ties with
RECURSIVE InsertSorted_Unstable(_, _)
InsertSorted_Unstable(sorted, r) ==
    IF sorted = <<>> THEN <<r>>
    ELSE IF ComparePriority(Head(sorted), r) < 0
    THEN <<Head(sorted)>> \o InsertSorted_Unstable(Tail(sorted), r)
    ELSE <<r>> \o sorted

\* Array.prototype.sort is stable: r goes behind every element it does not
\* have to precede
RECURSIVE InsertSorted(_, _)
InsertSorted(sorted, r) ==
    IF sorted = <<>> THEN <<r>>
    ELSE IF ComparePriority(Head(sorted), r) <= 0
    THEN <<Head(sorted)>> \o InsertSorted(Tail(sorted), r)
    ELSE <<r>> \o sorted

RECURSIVE Sort(_, _)
Sort(sorted, rest) ==
    IF rest = <<>> THEN sorted ELSE Sort(InsertSorted(sorted, Head(rest)), Tail(rest))

detectModules(index, tree, promptArg) ==
    Sort(<<>>, DetectLoop(index.entries, tree, promptArg))

\* the exceptions that leave the check functions: each wraps its file system
\* and process calls in try/catch
checkFilePatternsThrows(patterns, tree) ==
    \E i \in 1..Len(patterns) : TryCatch(patterns[i] \in InvalidPatterns)

checkImportsThrows(patterns, tree) == TryCatch(tree.grepFails)

checkDependenciesThrows(packages, tree) ==
    TryCatch(tree.pkg.state = "invalid") \/ TryCatch(tree.req.state = "invalid")

\* an exception leaves detectModules: one of the checks lets it go, or an
\* entry has no triggers object (ref.triggers.filePatterns is a TypeError)
detectModulesThrows(index, tree, promptArg) ==
    \E i \in 1..Len(index.entries) :
        LET ref == index.entries[i].ref
        IN  \/ "triggers" \notin DOMAIN ref
            \/ /\ HasLength(ref.triggers, "filePatterns")
               /\ checkFilePatternsThrows(ref.triggers.filePatterns, tree)
            \/ /\ HasLength(ref.triggers, "imports")
               /\ checkImportsThrows(ref.triggers.imports, tree)
            \/ /\ HasLength(ref.triggers, "dependencies")
               /\ checkDependenciesThrows(ref.triggers.dependencies, tree)

\* the catalog once detectModules has returned: the loop only reads it, and
\* the sort is applied to the new results array
indexAfterDetect(index, results) == index

DetectModules ==
    /\ pc = "detect"
    /\ IF detectModulesThrows(mergedIndex, cwd, prompt)
       THEN /\ pc' = "catch"
            /\ exception' = "detectModules"
            /\ UNCHANGED <<detected, mergedIndex>>
       ELSE /\ detected' = detectModules(mergedIndex, cwd, prompt)
            /\ mergedIndex' = indexAfterDetect(mergedIndex, detected')
            /\ pc' = "detected"
            /\ UNCHANGED exception
    /\ UNCHANGED <<userIndex, projectIndex, detectVars, callVars, autoDocsVars, loadVars, dirVars, result>>

(***************************************************************************)
(* loadReferences                                                          *)
(***************************************************************************)
\* the values maxTokens takes in the lists handed to loadReferences
TokenValues == {0, 500, 3000, 5000, 8001}

\* the budget test without the entry's own maxTokens
BudgetExceeded_TotalOnly(total, maxTokens) == total > MAX_TOTAL_TOKENS

\* if (totalTokens + module.maxTokens > MAX_TOTAL_TOKENS)
BudgetExceeded(total, maxTokens) == total + maxTokens > MAX_TOTAL_TOKENS

\* `### ${module.module.toUpperCase()}\n_Triggered by: ...` followed by the body
Section(module) ==
    [kind |-> "section", module |-> module.module,
     triggers |-> module.triggers, bodyOf |-> module.path]

\* `## Module Rules (Auto-detected: ${loadedModules.join(', ')})`
Header(modules) == [kind |-> "header", modules |-> modules]

Event(ev, k) == [ev |-> ev, k |-> k, module |-> detected[k].module]

\* the budget branch leaving the loop instead of continuing it
LoadSkip_Break ==
    /\ pc = "load"
    /\ idx <= Len(detected)
    /\ BudgetExceeded(totalTokens, detected[idx].maxTokens)
    /\ events' = Append(events, Event("budget_skip", idx))
    /\ idx' = Len(detected) + 1
    /\ UNCHANGED <<pc, mergeVars, detectVars, callVars, autoDocsVars, dirVars, exception, result, detected, totalTokens,
                   loadedContent, loadedModules, content>>

\* one iteration that takes the branch `continue` of the budget check
LoadSkip ==
    /\ pc = "load"
    /\ idx <= Len(detected)
    /\ BudgetExceeded(totalTokens, detected[idx].maxTokens)
    /\ events' = Append(events, Event("budget_skip", idx))
    /\ idx' = idx + 1
    /\ UNCHANGED <<pc, mergeVars, detectVars, callVars, autoDocsVars, dirVars, exception, result, detected, totalTokens,
                   loadedContent, loadedModules, content>>

\* one iteration whose readFileSync succeeds
LoadRead ==
    /\ pc = "load"
    /\ idx <= Len(detected)
    /\ ~BudgetExceeded(totalTokens, detected[idx].maxTokens)
    /\ events' = Append(events, Event("read", idx))
    /\ loadedContent' = Append(loadedContent, Section(detected[idx]))
    /\ loadedModules' = Append(loadedModules, detected[idx].module)
    /\ totalTokens' = totalTokens + detected[idx].maxTokens
    /\ idx' = idx + 1
    /\ UNCHANGED <<pc, mergeVars, detectVars, callVars, autoDocsVars, dirVars, exception, result, detected, content>>

\* a catch block that charges the failed entry to the budget
LoadReadFail_Counted ==
    /\ pc = "load"
    /\ idx <= Len(detected)
    /\ ~BudgetExceeded(totalTokens, detected[idx].maxTokens)
    /\ events' = Append(events, Event("read_failed", idx))
    /\ totalTokens' = totalTokens + detected[idx].maxTokens
    /\ idx' = idx + 1
    /\ UNCHANGED <<pc, mergeVars, detectVars, callVars, autoDocsVars, dirVars, exception, result, detected,
                   loadedContent, loadedModules, content>>

\* one iteration whose readFileSync throws: the catch block only logs
LoadReadFail ==
    /\ pc = "load"
    /\ idx <= Len(detected)
    /\ ~BudgetExceeded(totalTokens, detected[idx].maxTokens)
    /\ events' = Append(events, Event("read_failed", idx))
    /\ idx' = idx + 1
    /\ UNCHANGED <<pc, mergeVars, detectVars, callVars, autoDocsVars, dirVars, exception, result, detected, totalTokens,
                   loadedContent, loadedModules, content>>

\* a header that names every detected entry, loaded or not
LoadReturn_HeaderAllDetected ==
    /\ pc = "load"
    /\ idx > Len(detected)
    /\ content' = IF Len(loadedContent) = 0
                  THEN <<>>
                  ELSE <<Header([k \in 1..Len(detected) |-> detected[k].module])>>
                           \o loadedContent
    /\ pc' = "loaded"
    /\ UNCHANGED <<mergeVars, detectVars, callVars, autoDocsVars, dirVars, exception, result, detected, idx, totalTokens,
                   loadedContent, loadedModules, events>>

\* the end of the loop and the return statement
LoadReturn ==
    /\ pc = "load"
    /\ idx > Len(detected)
    /\ content' = IF Len(loadedContent) = 0
                  THEN <<>>
                  ELSE <<Header(loadedModules)>> \o loadedContent
    /\ pc' = "loaded"
    /\ UNCHANGED <<mergeVars, detectVars, callVars, autoDocsVars, dirVars, exception, result, detected, idx, totalTokens,
                   loadedContent, loadedModules, events>>

loadReferences == LoadSkip \/ LoadRead \/ LoadReadFail \/ LoadReturn

\* the lists handed to loadReferences: any order, any maxTokens
DetectionResultAt(k, maxTokens) ==
    [module |-> AllNames[k], path |-> <<"project", AllNames[k]>>, priority |-> 50,
     maxTokens |-> maxTokens, triggers |-> <<<<"keyword", Oauth>>>>]

DetectedLists ==
    UNION {{[k \in 1..n |-> DetectionResultAt(k, t[k])] : t \in [1..n -> TokenValues]}
           : n \in 0..MaxDetected}

\* a component started on its own: nothing loaded from disk, nothing thrown
NoDir == [exists |-> FALSE]

NoCycle ==
    /\ userDir = NoDir /\ projectDir = NoDir
    /\ fileReads = <<>>
    /\ exception = "none"
    /\ result = Null

\* no function is being called on its own
NoCall == args = Null /\ returned = Null

\* the two documents AutoDocs generates
Documents == {"README.md", "docs/ARCHITECTURE.md"}

\* the empty string of lastReadmeGeneration and lastArchitectureGeneration;
\* the timestamps new Date() gives are 1, 2, ...
NoTime == 0

\* AutoDocs has never run: no state file, no document
NoStateFile == [exists |-> FALSE]
NeverGenerated == [done |-> FALSE, time |-> NoTime, hash |-> ""]

NoAutoDocs ==
    /\ stateFile = NoStateFile
    /\ docFiles = [d \in Documents |-> "absent"]
    /\ clock = 1
    /\ lastGenerated = [d \in Documents |-> NeverGenerated]
    /\ changes = Null

LoadStart ==
    /\ idx = 1
    /\ totalTokens = 0
    /\ loadedContent = <<>>
    /\ loadedModules = <<>>
    /\ events = <<>>
    /\ content = <<>>

(***************************************************************************)
(* Catalogs handed to mergeIndices                                         *)
(***************************************************************************)
WithoutKeys(obj, keys) == [f \in DOMAIN obj \ keys |-> obj[f]]

DisplayName == [auth |-> "Auth", legacy |-> "Legacy", db |-> "DB"]

UserTriggers ==
    <<[keywords |-> <<Login>>],
      [filePatterns |-> <<"src/auth/**">>, imports |-> <<>>,
       dependencies |-> <<Jwt>>, keywords |-> <<Login, Oauth>>]>>

ProjectTriggers ==
    <<[keywords |-> <<Oauth>>],
      [filePatterns |-> <<"src/auth/**", "docs/**">>, imports |-> <<Jwt>>,
       keywords |-> <<Oauth>>]>>

\* an entry of the user catalog; disabled is either missing or true
UserEntry(key, variant, disabled) ==
    WithoutKeys([name |-> DisplayName[key], path |-> <<"user", key>>,
                 description |-> "user notes", triggers |-> UserTriggers[variant],
                 priority |-> 80, maxTokens |-> 2000, disabled |-> TRUE],
                IF disabled THEN {} ELSE {"disabled"})

\* an entry of the project catalog; disabled is false or true, overrideTriggers
\* is missing or true, the second variant has no description
ProjectEntry(key, variant, disabled, override) ==
    WithoutKeys([name |-> key, path |-> <<"project", key>>,
                 description |-> "project notes", triggers |-> ProjectTriggers[variant],
                 priority |-> 90, maxTokens |-> 3000, disabled |-> disabled,
                 overrideTriggers |-> TRUE],
                (IF override THEN {} ELSE {"overrideTriggers"})
                    \cup (IF variant = 2 THEN {"description"} ELSE {}))

MergeNames == 1..3

KeyLists == UNION {[1..n -> MergeNames] : n \in 0..MaxEntries}

\* a user catalog lists its keys in the order of AllNames, a project catalog
\* in any order
UserKeyLists == {ks \in KeyLists : \A i, j \in 1..Len(ks) : i < j => ks[i] < ks[j]}
ProjectKeyLists == {ks \in KeyLists : \A i, j \in 1..Len(ks) : i # j => ks[i] # ks[j]}

UserCatalogs ==
    UNION {{Catalog([i \in 1..Len(ks) |->
                        [key |-> AllNames[ks[i]],
                         ref |-> UserEntry(AllNames[ks[i]], o[i][1], o[i][2])]])
            : o \in [1..Len(ks) -> {1, 2} \X BOOLEAN]}
           : ks \in UserKeyLists}

ProjectCatalogs ==
    UNION {{Catalog([i \in 1..Len(ks) |->
                        [key |-> AllNames[ks[i]],
                         ref |-> ProjectEntry(AllNames[ks[i]], o[i][1], o[i][2], o[i][3])]])
            : o \in [1..Len(ks) -> {1, 2} \X BOOLEAN \X BOOLEAN]}
           : ks \in ProjectKeyLists}

InitMerge ==
    /\ NoCycle /\ NoCall /\ NoAutoDocs
    /\ pc = "merge"
    /\ userIndex = Null \/ userIndex \in UserCatalogs
    /\ projectIndex = Null \/ projectIndex \in ProjectCatalogs
    /\ mergedIndex = Null
    /\ cwd = EmptyTree /\ prompt = NoPrompt
    /\ detected = <<>>
    /\ LoadStart

SpecMerge == InitMerge /\ [][MergeIndices]_vars

(***************************************************************************)
(* Catalogs, working trees and prompts handed to detectModules             *)
(***************************************************************************)
DetectTriggers ==
    {[keywords |-> <<Login, OAuth>>],
     [filePatterns |-> <<"[bad", "src/auth/**">>, imports |-> <<>>,
      dependencies |-> <<>>, keywords |-> <<>>],
     [imports |-> <<Jwt>>, dependencies |-> <<Orm, JWT>>],
     [filePatterns |-> <<"**/jwt/**">>, imports |-> <<EmptyString, Jwt>>,
      keywords |-> <<EmptyString, Oauth>>],
     [filePatterns |-> <<"docs/**">>, imports |-> <<Orm>>,
      dependencies |-> <<Jwt>>, keywords |-> <<Oauth>>],
     [filePatterns |-> <<>>]}

Priorities == {10, 50, 90}

\* the entry of lowest priority asks for more tokens than the whole budget
DetectEntryRef(key, priority, triggers) ==
    [name |-> key, path |-> <<"project", key>>, triggers |-> triggers,
     priority |-> priority, maxTokens |-> IF priority = 10 THEN 9000 ELSE 2000]

DetectCatalogs ==
    UNION {{Catalog([i \in 1..n |->
                        [key |-> AllNames[i],
                         ref |-> DetectEntryRef(AllNames[i], o[i][1], o[i][2])]])
            : o \in [1..n -> Priorities \X DetectTriggers]}
           : n \in 0..MaxEntries}

Trees ==
    {Tree(f[1], f[2], m[1], m[2]) :
        f \in {<<<<>>, FALSE>>,
               <<<<"src/auth/login.ts">>, FALSE>>,
               <<<<"src/auth/login.ts">>, TRUE>>,
               <<<<"node_modules/jwt/index.js", "docs/auth.md">>, FALSE>>,
               <<<<"src/auth/b.ts", "src/auth/a.ts", "src/auth/token.ts", "src/auth/login.ts">>,
                 FALSE>>},
        m \in {<<NoFile, NoFile>>,
               <<PackageJson({Jwt}), NoFile>>,
               <<InvalidFile, RequirementsTxt(<<"J", "w", "t", "=", "1">>)>>,
               <<PackageJson({}), RequirementsTxt(Orm)>>,
               <<NoFile, InvalidFile>>}}

Prompts == {NoPrompt, Prompt(EmptyString), Prompt(<<"a", "d", "d", " ", "o", "a", "u", "t", "h">>)}

InitDetect ==
    /\ NoCycle /\ NoCall /\ NoAutoDocs
    /\ pc = "detect"
    /\ userIndex = Null /\ projectIndex = Null
    /\ mergedIndex \in DetectCatalogs
    /\ cwd \in Trees
    /\ prompt \in Prompts
    /\ detected = <<>>
    /\ LoadStart

SpecDetect == InitDetect /\ [][DetectModules]_vars

InitLoad ==
    /\ NoCycle /\ NoCall /\ NoAutoDocs
    /\ pc = "load"
    /\ userIndex = Null /\ projectIndex = Null /\ mergedIndex = Null
    /\ cwd = EmptyTree /\ prompt = NoPrompt
    /\ detected \in DetectedLists
    /\ LoadStart

SpecLoad == InitLoad /\ [][loadReferences]_vars

(***************************************************************************)
(* loadReferenceIndex and scanReferencesDirectory                          *)
(***************************************************************************)
\* <dir>/references: whether readdirSync can list it, its index.json and its
\* other files in the order readdirSync returns them
Dir(name, listable, indexJson, docs) ==
    [exists |-> TRUE, name |-> name, listable |-> listable,
     indexJson |-> indexJson, docs |-> docs]

\* an index.json that JSON.parse accepts, with the value it parses to
IndexJson(value) == [state |-> "ok", value |-> value]

\* a file of the directory: whether readFileSync succeeds and the
\* frontmatter parseFrontmatter returns for it
Doc(file, readable, frontmatter) ==
    [file |-> file, readable |-> readable, frontmatter |-> frontmatter]

\* f.endsWith('.md')
EndsWithMd == {"oauth.md", "jwt.md", "orm.md", "README.md"}

\* the filter of line 93
IsReferenceFile(doc) == doc.file \in EndsWithMd /\ doc.file # "README.md"

\* priority: parsed.frontmatter.priority ?? 50
DefaultPriority == 50

\* maxTokens: parsed.frontmatter.maxTokens ?? 2000
DefaultMaxTokens == 2000

\* the object literal of lines 102-111; a field of the frontmatter that is
\* undefined is left out
ScanEntry(dirName, doc) ==
    LET fm == doc.frontmatter
    IN  [f \in {"name", "path", "triggers", "priority", "maxTokens"}
                \cup (DOMAIN fm \cap {"description", "disabled", "overrideTriggers"}) |->
            CASE f = "path" -> <<dirName, doc.file>>
              [] f = "priority" ->
                    IF "priority" \in DOMAIN fm THEN fm.priority ELSE DefaultPriority
              [] f = "maxTokens" ->
                    IF "maxTokens" \in DOMAIN fm THEN fm.maxTokens ELSE DefaultMaxTokens
              [] OTHER -> fm[f]]

\* the file is read and: if (parsed.frontmatter.name && parsed.frontmatter.triggers)
ScanAccepts(doc) ==
    /\ doc.readable
    /\ "name" \in DOMAIN doc.frontmatter /\ doc.frontmatter.name # EmptyString
    /\ "triggers" \in DOMAIN doc.frontmatter

RECURSIVE ScanLoop(_, _, _)
ScanLoop(dirName, docs, index) ==
    IF docs = <<>> THEN index
    ELSE ScanLoop(dirName, Tail(docs),
                  IF ScanAccepts(Head(docs))
                  THEN Assign(index, ToLowerCase(Head(docs).frontmatter.name),
                              ScanEntry(dirName, Head(docs)))
                  ELSE index)

scanReferencesDirectory(dir) ==
    Catalog(ScanLoop(dir.name, SelectSeq(dir.docs, IsReferenceFile), <<>>))

\* the files scanReferencesDirectory reads in full (readFileSync of line 98)
ScanReads(dir) ==
    LET read == SelectSeq(dir.docs, LAMBDA doc : IsReferenceFile(doc) /\ doc.readable)
    IN  [i \in 1..Len(read) |-> <<dir.name, read[i].file>>]

\* whether loadReferenceIndex goes on to scanReferencesDirectory
FallsBackToScan(dir) == dir.exists /\ dir.indexJson.state # "ok"

\* readdirSync of line 93 is outside every try block
loadReferenceIndexThrows(dir) == FallsBackToScan(dir) /\ ~dir.listable

loadReferenceIndex(dir) ==
    IF ~dir.exists THEN Null
    ELSE IF dir.indexJson.state = "ok" THEN dir.indexJson.value
    ELSE scanReferencesDirectory(dir)

(***************************************************************************)
(* detectAndLoadModuleRules                                                *)
(***************************************************************************)
\* a returned string
Text(text) == [isNull |-> FALSE, text |-> text]

\* return content, without the test for the empty string
ReturnValue_NoNull(text) == Text(text)

\* return content || null
ReturnValue(text) == IF text = <<>> THEN Null ELSE Text(text)

\* const userIndex = await loadReferenceIndex(config.userDir)
LoadUserIndex ==
    /\ pc = "start"
    /\ IF loadReferenceIndexThrows(userDir)
       THEN /\ pc' = "catch"
            /\ exception' = "loadReferenceIndex"
            /\ UNCHANGED <<userIndex, fileReads>>
       ELSE /\ userIndex' = loadReferenceIndex(userDir)
            /\ fileReads' = fileReads
                    \o (IF FallsBackToScan(userDir) THEN ScanReads(userDir) ELSE <<>>)
            /\ pc' = "user_loaded"
            /\ UNCHANGED exception
    /\ UNCHANGED <<projectIndex, mergedIndex, detectVars, callVars, autoDocsVars, detected, loadVars,
                   userDir, projectDir, result>>

\* const projectIndex = await loadReferenceIndex(config.projectDir)
LoadProjectIndex ==
    /\ pc = "user_loaded"
    /\ IF loadReferenceIndexThrows(projectDir)
       THEN /\ pc' = "catch"
            /\ exception' = "loadReferenceIndex"
            /\ UNCHANGED <<projectIndex, fileReads>>
       ELSE /\ projectIndex' = loadReferenceIndex(projectDir)
            /\ fileReads' = fileReads
                    \o (IF FallsBackToScan(projectDir) THEN ScanReads(projectDir) ELSE <<>>)
            /\ pc' = "indices_loaded"
            /\ UNCHANGED exception
    /\ UNCHANGED <<userIndex, mergedIndex, detectVars, callVars, autoDocsVars, detected, loadVars,
                   userDir, projectDir, result>>

\* if (!userIndex && !projectIndex) return null
CheckIndices ==
    /\ pc = "indices_loaded"
    /\ IF userIndex.isNull /\ projectIndex.isNull
       THEN pc' = "returned" /\ result' = Null
       ELSE pc' = "merge" /\ UNCHANGED result
    /\ UNCHANGED <<mergeVars, detectVars, callVars, autoDocsVars, detected, loadVars, dirVars, exception>>

\* if (Object.keys(mergedIndex).length === 0) return null
CheckMerged ==
    /\ pc = "merged"
    /\ IF Len(mergedIndex.entries) = 0
       THEN pc' = "returned" /\ result' = Null
       ELSE pc' = "detect" /\ UNCHANGED result
    /\ UNCHANGED <<mergeVars, detectVars, callVars, autoDocsVars, detected, loadVars, dirVars, exception>>

\* if (detected.length === 0) return null
CheckDetected ==
    /\ pc = "detected"
    /\ IF Len(detected) = 0
       THEN pc' = "returned" /\ result' = Null
       ELSE pc' = "load" /\ UNCHANGED result
    /\ UNCHANGED <<mergeVars, detectVars, callVars, autoDocsVars, detected, loadVars, dirVars, exception>>

ReturnContent ==
    /\ pc = "loaded"
    /\ result' = ReturnValue(content)
    /\ pc' = "returned"
    /\ UNCHANGED <<mergeVars, detectVars, callVars, autoDocsVars, detected, loadVars, dirVars, exception>>

\* a catch block that logs and throws the error again
Catch_Rethrow ==
    /\ pc = "catch"
    /\ pc' = "raised"
    /\ UNCHANGED <<mergeVars, detectVars, callVars, autoDocsVars, detected, loadVars, dirVars, exception, result>>

\* catch (error) { console.error(...); return null; }
Catch ==
    /\ pc = "catch"
    /\ result' = Null
    /\ pc' = "returned"
    /\ UNCHANGED <<mergeVars, detectVars, callVars, autoDocsVars, detected, loadVars, dirVars, exception>>

detectAndLoadModuleRules ==
    \/ LoadUserIndex \/ LoadProjectIndex \/ CheckIndices
    \/ MergeIndices \/ CheckMerged
    \/ DetectModules \/ CheckDetected
    \/ loadReferences \/ ReturnContent
    \/ Catch

(***************************************************************************)
(* Directories handed to detectAndLoadModuleRules                          *)
(***************************************************************************)
\* frontmatter of the documents of the user directory
FmOAuth == [name |-> OAuth, description |-> "user notes",
            triggers |-> [keywords |-> <<Oauth>>]]
FmJwt == [name |-> Jwt, triggers |-> [dependencies |-> <<Jwt>>],
          priority |-> 90, maxTokens |-> 5000]
FmOrm == [name |-> Orm, triggers |-> [keywords |-> <<Login>>], priority |-> 10]
FmNoName == [triggers |-> [keywords |-> <<Oauth>>]]

\* frontmatter of the documents of the project directory
FmOauthProject == [name |-> Oauth,
                   triggers |-> [filePatterns |-> <<"src/auth/**">>, keywords |-> <<Oauth>>],
                   priority |-> 80, maxTokens |-> 5000]
FmJwtDisabled == [name |-> JWT, triggers |-> [keywords |-> <<>>], disabled |-> TRUE]

\* entries of a hand-written index.json: a key in mixed case, an entry
\* without triggers, an entry without priority and maxTokens, a well-formed
\* entry
IndexEntryMixedCase ==
    [key |-> OAuth,
     ref |-> [name |-> OAuth, path |-> <<"user", "oauth.md">>,
              triggers |-> [keywords |-> <<Oauth>>], priority |-> 50, maxTokens |-> 2000]]
IndexEntryNoTriggers ==
    [key |-> Oauth,
     ref |-> [name |-> OAuth, path |-> <<"user", "oauth.md">>,
              priority |-> 50, maxTokens |-> 2000]]
IndexEntryNoDefaults ==
    [key |-> Orm,
     ref |-> [name |-> Orm, path |-> <<"user", "orm.md">>,
              triggers |-> [keywords |-> <<Login>>]]]
IndexEntryJwt ==
    [key |-> Jwt,
     ref |-> [name |-> JWT, path |-> <<"project", "jwt.md">>,
              triggers |-> [dependencies |-> <<Jwt>>, keywords |-> <<Oauth>>],
              priority |-> 90, maxTokens |-> 3000, overrideTriggers |-> TRUE]]

UserDirs ==
    {NoDir,
     Dir("user", TRUE, NoFile,
         <<Doc("oauth.md", TRUE, FmOAuth), Doc("README.md", TRUE, FmOrm),
           Doc("jwt.md", TRUE, FmJwt), Doc("orm.md", TRUE, FmOrm),
           Doc("notes.txt", TRUE, FmOrm)>>),
     Dir("user", FALSE, NoFile, <<>>),
     Dir("user", TRUE, IndexJson(Catalog(<<IndexEntryMixedCase, IndexEntryNoDefaults>>)),
         <<Doc("oauth.md", TRUE, FmOAuth)>>),
     Dir("user", TRUE, IndexJson(Null), <<Doc("oauth.md", TRUE, FmOAuth)>>),
     Dir("user", TRUE, IndexJson(Catalog(<<IndexEntryNoTriggers>>)), <<>>),
     Dir("user", TRUE, InvalidFile,
         <<Doc("oauth.md", FALSE, FmOAuth), Doc("jwt.md", TRUE, FmNoName),
           Doc("orm.md", TRUE, FmOrm)>>)}

ProjectDirs ==
    {NoDir,
     Dir("project", TRUE, NoFile, <<Doc("oauth.md", TRUE, FmOauthProject)>>),
     Dir("project", TRUE, InvalidFile,
         <<Doc("oauth.md", TRUE, FmOauthProject), Doc("jwt.md", TRUE, FmJwtDisabled)>>),
     Dir("project", TRUE, NoFile, <<>>),
     Dir("project", TRUE, IndexJson(Catalog(<<IndexEntryJwt>>)), <<>>),
     Dir("project", FALSE, InvalidFile, <<>>)}

CycleTrees ==
    {EmptyTree,
     Tree(<<"src/auth/login.ts">>, TRUE, PackageJson({Jwt}), InvalidFile)}

CyclePrompts == {NoPrompt, Prompt(<<"a", "d", "d", " ", "o", "a", "u", "t", "h">>)}

Init ==
    /\ pc = "start"
    /\ userDir \in UserDirs /\ projectDir \in ProjectDirs
    /\ cwd \in CycleTrees /\ prompt \in CyclePrompts
    /\ userIndex = Null /\ projectIndex = Null /\ mergedIndex = Null
    /\ detected = <<>>
    /\ LoadStart
    /\ fileReads = <<>>
    /\ exception = "none"
    /\ result = Null
    /\ NoCall /\ NoAutoDocs

Next == detectAndLoadModuleRules

Spec == Init /\ [][Next]_vars

(***************************************************************************)
(* checkFilePatterns and checkDependencies called on their own             *)
(***************************************************************************)
MaxPatterns == 3
MaxPackages == 2

\* nothing of a detection cycle is in progress
NoDetection ==
    /\ NoCycle
    /\ userIndex = Null /\ projectIndex = Null /\ mergedIndex = Null
    /\ cwd = EmptyTree /\ prompt = NoPrompt
    /\ detected = <<>>
    /\ LoadStart

\* the patterns for which new Glob(pattern) was evaluated, in order
RECURSIVE ScannedPatterns(_, _)
ScannedPatterns(patterns, tree) ==
    IF patterns = <<>> THEN <<>>
    ELSE IF Head(patterns) \notin InvalidPatterns /\ Len(ScanPattern(Head(patterns), tree)) > 0
    THEN <<Head(patterns)>>
    ELSE <<Head(patterns)>> \o ScannedPatterns(Tail(patterns), tree)

CheckFilePatterns ==
    /\ pc = "call"
    /\ returned' = [matches |-> checkFilePatterns(args.patterns, args.cwd),
                    scanned |-> ScannedPatterns(args.patterns, args.cwd)]
    /\ pc' = "done"
    /\ UNCHANGED <<mergeVars, detectVars, detected, loadVars, dirVars, exception, result,
                   args, autoDocsVars>>

PatternLists ==
    UNION {[1..n -> {"src/auth/**", "**/*.ts", "**/jwt/**", "docs/**", "[bad"}]
           : n \in 0..MaxPatterns}

PatternTrees ==
    {Tree(files, FALSE, NoFile, NoFile) :
        files \in {<<>>,
                   <<"docs/auth.md">>,
                   <<"node_modules/jwt/index.js", "src/auth/login.ts">>,
                   <<"src/auth/b.ts", "node_modules/jwt/index.js", "src/auth/a.ts",
                     "docs/auth.md", "src/auth/token.ts", "src/auth/login.ts">>}}

InitFilePatterns ==
    /\ NoDetection /\ NoAutoDocs
    /\ pc = "call"
    /\ \E patterns \in PatternLists, tree \in PatternTrees :
          args = [patterns |-> patterns, cwd |-> tree]
    /\ returned = Null

SpecFilePatterns == InitFilePatterns /\ [][CheckFilePatterns]_vars

CheckDependencies ==
    /\ pc = "call"
    /\ returned' = [value |-> checkDependencies(args.packages, args.cwd)]
    /\ pc' = "done"
    /\ UNCHANGED <<mergeVars, detectVars, detected, loadVars, dirVars, exception, result,
                   args, autoDocsVars>>

PackageLists == UNION {[1..n -> {Orm, Jwt, JWT}] : n \in 0..MaxPackages}

ManifestTrees ==
    {Tree(<<>>, FALSE, pkg, req) :
        pkg \in {NoFile, InvalidFile, PackageJson({}), PackageJson({Jwt}),
                 PackageJson({Jwt, Orm})},
        req \in {NoFile, InvalidFile, RequirementsTxt(<<"J", "w", "t", "=", "1">>),
                 RequirementsTxt(<<"O", "r", "m", " ", "j", "w", "t">>)}}

InitDependencies ==
    /\ NoDetection /\ NoAutoDocs
    /\ pc = "call"
    /\ \E packages \in PackageLists, tree \in ManifestTrees :
          args = [packages |-> packages, cwd |-> tree]
    /\ returned = Null

SpecDependencies == InitDependencies /\ [][CheckDependencies]_vars

(***************************************************************************)
(* parseFrontmatter                                                        *)
(*                                                                         *)
(* A string is a sequence of characters and the content of a document is   *)
(* the sequence of its lines (the content split at "\n").  A JavaScript    *)
(* object is a sequence of [key, ref] pairs as in the catalogs above; a    *)
(* value carries its type.                                                 *)
(***************************************************************************)
MaxLines == 3

Whitespace == {" ", "\t"}
Quotes == {"\"", "'"}
Digits == <<"0", "1", "2", "3", "4", "5", "6", "7", "8", "9">>

RECURSIVE TrimStart(_)
TrimStart(s) == IF s # <<>> /\ Head(s) \in Whitespace THEN TrimStart(Tail(s)) ELSE s

RECURSIVE TrimEnd(_)
TrimEnd(s) ==
    IF s # <<>> /\ s[Len(s)] \in Whitespace THEN TrimEnd(SubSeq(s, 1, Len(s) - 1)) ELSE s

\* s.trim()
Trim(s) == TrimEnd(TrimStart(s))

\* s.startsWith(p), s.endsWith(p)
StartsWith(s, p) == Len(s) >= Len(p) /\ SubSeq(s, 1, Len(p)) = p
EndsWith(s, p) == Len(s) >= Len(p) /\ SubSeq(s, Len(s) - Len(p) + 1, Len(s)) = p

\* s.indexOf(c): the 0-based position of the first c, -1 when there is none
IndexOf(s, c) ==
    IF \E i \in 1..Len(s) : s[i] = c THEN Min({i \in 1..Len(s) : s[i] = c}) - 1 ELSE -1

\* s.slice(from, to) with 0 <= from and to <= s.length
Slice(s, from, to) == SubSeq(s, from + 1, to)

\* s.replace(/^["']|["']$/g, ''): one quote off the front, then one off the
\* end of what is left
StripQuotes(s) ==
    LET rest == IF s # <<>> /\ Head(s) \in Quotes THEN Tail(s) ELSE s
    IN  IF rest # <<>> /\ rest[Len(rest)] \in Quotes
        THEN SubSeq(rest, 1, Len(rest) - 1)
        ELSE rest

\* s.split(sep) for a separator of one character
RECURSIVE Split(_, _)
Split(s, sep) ==
    IF IndexOf(s, sep) = -1 THEN <<s>>
    ELSE <<Slice(s, 0, IndexOf(s, sep))>>
           \o Split(Slice(s, IndexOf(s, sep) + 1, Len(s)), sep)

\* !isNaN(Number(s)) for the strings of the model: decimal digits only
\* (Number('') is 0)
IsNumber(s) == \A i \in 1..Len(s) : \E d \in 1..10 : Digits[d] = s[i]

RECURSIVE ToNumber(_)
ToNumber(s) ==
    IF s = <<>> THEN 0
    ELSE 10 * ToNumber(SubSeq(s, 1, Len(s) - 1))
           + (CHOOSE d \in 1..10 : Digits[d] = s[Len(s)]) - 1

StringValue(s) == [type |-> "string", chars |-> s]
BooleanValue(b) == [type |-> "boolean", bool |-> b]
NumberValue(n) == [type |-> "number", num |-> n]
ArrayValue(items) == [type |-> "array", items |-> items]
ObjectValue(fields) == [type |-> "object", fields |-> fields]

KeyTriggers == <<"t", "r", "i", "g", "g", "e", "r", "s">>
ArrayParents == {<<"f", "i", "l", "e", "P", "a", "t", "t", "e", "r", "n", "s">>,
                 <<"i", "m", "p", "o", "r", "t", "s">>,
                 <<"d", "e", "p", "e", "n", "d", "e", "n", "c", "i", "e", "s">>,
                 <<"k", "e", "y", "w", "o", "r", "d", "s">>}
FrontmatterFence == <<"-", "-", "-">>

\* frontmatter.triggers is set (the model gives it no scalar value)
HasTriggers(frontmatter) == HasKey(frontmatter, KeyTriggers)

\* frontmatter.triggers[key] = array, after `if (!frontmatter.triggers)
\* frontmatter.triggers = {}`
SetTrigger(frontmatter, key, array) ==
    LET triggers == IF HasTriggers(frontmatter)
                    THEN Get(frontmatter, KeyTriggers).fields
                    ELSE <<>>
    IN  Assign(frontmatter, KeyTriggers, ObjectValue(Assign(triggers, key, array)))

\* let currentArray: string[] | null.  The array is shared with
\* frontmatter.triggers[key] as long as `attached`; after
\* frontmatter.triggers = {} it is still the current array, but no longer
\* part of the frontmatter.
NoArray == [open |-> FALSE, key |-> <<>>, attached |-> FALSE]
OpenArray(key) == [open |-> TRUE, key |-> key, attached |-> TRUE]

ParserStart == [frontmatter |-> <<>>, currentKey |-> <<>>, currentArray |-> NoArray]

\* currentArray.push(value)
Push(st, value) ==
    IF st.currentArray.attached
    THEN LET key == st.currentArray.key
             array == Get(Get(st.frontmatter, KeyTriggers).fields, key)
         IN  [st EXCEPT !.frontmatter =
                 SetTrigger(@, key, ArrayValue(Append(array.items, value)))]
    ELSE st

\* `key:` or `key: {`
NestedStart(st, key) ==
    IF key \in ArrayParents
    THEN [frontmatter |-> SetTrigger(st.frontmatter, key, ArrayValue(<<>>)),
          currentKey |-> key,
          currentArray |-> OpenArray(key)]
    ELSE IF key = KeyTriggers
    THEN [frontmatter |-> Assign(st.frontmatter, KeyTriggers, ObjectValue(<<>>)),
          currentKey |-> key,
          currentArray |-> [st.currentArray EXCEPT !.attached = FALSE]]
    ELSE [st EXCEPT !.currentKey = key]

\* `key: [a, b, c]`
InlineArray(st, key, items) ==
    IF st.currentKey = KeyTriggers \/ HasTriggers(st.frontmatter)
    THEN [st EXCEPT !.frontmatter = SetTrigger(@, key, ArrayValue(items)),
                    !.currentArray = NoArray]
    ELSE [st EXCEPT !.frontmatter = Assign(@, key, ArrayValue(items)),
                    !.currentArray = NoArray]

\* `key: value`
SimpleValue(st, key, cleanValue) ==
    IF StartsWith(cleanValue, <<"[">>) /\ EndsWith(cleanValue, <<"]">>)
    THEN InlineArray(st, key,
            LET parts == Split(Slice(cleanValue, 1, Len(cleanValue) - 1), ",")
            IN  [i \in 1..Len(parts) |-> StripQuotes(Trim(parts[i]))])
    ELSE [st EXCEPT
            !.frontmatter =
                Assign(@, key,
                       IF cleanValue = <<"t", "r", "u", "e">> THEN BooleanValue(TRUE)
                       ELSE IF cleanValue = <<"f", "a", "l", "s", "e">> THEN BooleanValue(FALSE)
                       ELSE IF IsNumber(cleanValue) THEN NumberValue(ToNumber(cleanValue))
                       ELSE StringValue(cleanValue)),
            !.currentArray = NoArray]

\* one turn of `for (const line of yaml.split('\n'))`
ParseLine(st, line) ==
    LET trimmed == Trim(line)
        colonIndex == IndexOf(line, ":")
        key == Trim(Slice(line, 0, colonIndex))
        value == Trim(Slice(line, colonIndex + 1, Len(line)))
    IN  IF trimmed = <<>> \/ StartsWith(trimmed, <<"#">>) THEN st
        ELSE IF StartsWith(trimmed, <<"-", " ">>)
        THEN IF st.currentArray.open
             THEN Push(st, StripQuotes(Trim(Slice(trimmed, 2, Len(trimmed)))))
             ELSE st
        ELSE IF colonIndex > 0
        THEN IF value = <<>> \/ value = <<"{">>
             THEN NestedStart(st, key)
             ELSE SimpleValue(st, key, StripQuotes(value))
        ELSE st

RECURSIVE ParseLines(_, _)
ParseLines(st, lines) ==
    IF lines = <<>> THEN st ELSE ParseLines(ParseLine(st, Head(lines)), Tail(lines))

\* content.match(/^---\n([\s\S]*?)\n---\n([\s\S]*)$/): the position of the
\* line that closes the front matter, 0 when the content does not match
ClosingFence(lines) ==
    IF /\ Len(lines) >= 4
       /\ lines[1] = FrontmatterFence
       /\ \E j \in 3..(Len(lines) - 1) : lines[j] = FrontmatterFence
    THEN Min({j \in 3..(Len(lines) - 1) : lines[j] = FrontmatterFence})
    ELSE 0

\* the body of the model has one line
parseFrontmatter(lines) ==
    IF ClosingFence(lines) = 0
    THEN [frontmatter |-> <<>>, body |-> lines]
    ELSE [frontmatter |->
              ParseLines(ParserStart, SubSeq(lines, 2, ClosingFence(lines) - 1)).frontmatter,
          body |-> <<Trim(lines[Len(lines)])>>]

ParseFrontmatter ==
    /\ pc = "call"
    /\ returned' = parseFrontmatter(args.content)
    /\ pc' = "done"
    /\ UNCHANGED <<mergeVars, detectVars, detected, loadVars, dirVars, exception, result,
                   args, autoDocsVars>>

YamlLines ==
    {<<"t", "r", "i", "g", "g", "e", "r", "s", ":">>,
     <<" ", " ", "k", "e", "y", "w", "o", "r", "d", "s", ":">>,
     <<" ", " ", "i", "m", "p", "o", "r", "t", "s", ":", " ", "{">>,
     <<"d", "e", "s", "c", "r", "i", "p", "t", "i", "o", "n", ":">>,
     <<"k", "e", "y", "w", "o", "r", "d", "s", ":", " ", "[", "l", "o", "g", "i", "n", ",", " ", "'", "o", "a", "u", "t", "h", "'", "]">>,
     <<"t", "a", "g", "s", ":", " ", "[", "x", "]">>,
     <<"n", "a", "m", "e", ":", " ", "\"", "a", "u", "t", "h", "\"">>,
     <<"p", "r", "i", "o", "r", "i", "t", "y", ":", " ", "5", "0">>,
     <<" ", " ", "-", " ", "o", "a", "u", "t", "h">>,
     <<" ", " ", "-", " ", "\"", "j", "w", "t", "\"">>,
     <<"#", " ", "r", "u", "l", "e", "s">>}

BodyLine == <<" ", "U", "s", "e", " ", "O", "A", "u", "t", "h", ".", " ">>

Contents ==
    {<<FrontmatterFence>> \o yaml \o <<FrontmatterFence, BodyLine>> :
        yaml \in UNION {[1..n -> YamlLines] : n \in 0..MaxLines}}
    \cup {<<BodyLine>>, <<FrontmatterFence, FrontmatterFence, BodyLine>>}

InitParse ==
    /\ NoDetection /\ NoAutoDocs
    /\ pc = "call"
    /\ \E lines \in Contents : args = [content |-> lines]
    /\ returned = Null

SpecParse == InitParse /\ [][ParseFrontmatter]_vars

(***************************************************************************)
(* AutoDocs: the commands of AutoDocs.ts and detectChanges of              *)
(* ChangeDetector.ts                                                       *)
(*                                                                         *)
(* A document is absent, as generated, or edited by hand; a timestamp is   *)
(* the reading of a clock that a command advances, '' is NoTime.  The      *)
(* staged and changed files of the repository are known by the trigger     *)
(* lists they match.  A command that fails before it writes changes        *)
(* nothing and is left out.                                                *)
(***************************************************************************)
MaxClock == 4

ReadmeDoc == "README.md"
ArchitectureDoc == "docs/ARCHITECTURE.md"

\* createHash('sha256').update(content).digest('hex').slice(0, 16)
ContentHash == [generated |-> "3f2a9c41d07be865", edited |-> "b81e550a7c3392fd"]

\* null when the file does not exist
getFileHash(files, doc) ==
    IF files[doc] = "absent" THEN None ELSE Some(ContentHash[files[doc]])

DefaultState ==
    [lastReadmeGeneration |-> NoTime,
     lastArchitectureGeneration |-> NoTime,
     lastCommitHash |-> "",
     filesAtLastGeneration |-> [d \in {} |-> ""],
     lastAnalyzedFiles |-> <<>>]

loadState(file) == IF file.exists THEN file.state ELSE DefaultState

\* the state that updateState saves
updateState(readmeUpdated, archUpdated, now, commitHash, files) ==
    LET updated == {d \in Documents :
                      /\ (d = ReadmeDoc => readmeUpdated)
                      /\ (d = ArchitectureDoc => archUpdated)
                      /\ getFileHash(files, d) # None}
    IN  [lastReadmeGeneration |-> IF readmeUpdated THEN now ELSE NoTime,
         lastArchitectureGeneration |-> IF archUpdated THEN now ELSE NoTime,
         lastCommitHash |-> commitHash,
         filesAtLastGeneration |-> [d \in updated |-> getFileHash(files, d)[1]],
         lastAnalyzedFiles |-> <<>>]

ChangeKinds == {"critical", "readme", "architecture", "other"}
CommitHashes == {"", "4be1f07"}

NoChanges ==
    [needsReadmeUpdate |-> FALSE, needsArchitectureUpdate |-> FALSE,
     changedFiles |-> {}, triggers |-> <<>>, staleDocs |-> <<>>]

\* currentHash && stored !== currentHash, and stored is set
IsStale(state, files, doc) ==
    /\ getFileHash(files, doc) # None
    /\ doc \in DOMAIN state.filesAtLastGeneration
    /\ state.filesAtLastGeneration[doc] # getFileHash(files, doc)[1]
    /\ state.filesAtLastGeneration[doc] # ""

detectChanges(force, state, skillsExists, changed, files) ==
    IF force
    THEN [NoChanges EXCEPT !.needsReadmeUpdate = TRUE, !.needsArchitectureUpdate = TRUE,
                           !.triggers = <<"Force regeneration requested">>]
    ELSE IF state.lastCommitHash = "" /\ skillsExists
    THEN [NoChanges EXCEPT !.needsReadmeUpdate = TRUE, !.needsArchitectureUpdate = TRUE,
                           !.triggers = <<"First run - no previous state tracked">>]
    ELSE IF changed = {}
    THEN [NoChanges EXCEPT !.triggers = <<"No changed files detected">>]
    ELSE [needsReadmeUpdate |->
              \/ "critical" \in changed
              \/ "readme" \in changed
              \/ files[ReadmeDoc] = "absent",
          needsArchitectureUpdate |->
              \/ "critical" \in changed
              \/ "architecture" \in changed
              \/ files[ArchitectureDoc] = "absent",
          changedFiles |-> changed,
          triggers |->
              (IF "critical" \in changed THEN <<"Critical files changed">> ELSE <<>>)
              \o (IF "readme" \in changed THEN <<"README triggers">> ELSE <<>>)
              \o (IF "architecture" \in changed THEN <<"Architecture triggers">> ELSE <<>>)
              \o (IF files[ReadmeDoc] = "absent"
                  THEN <<"README.md does not exist">> ELSE <<>>)
              \o (IF files[ArchitectureDoc] = "absent"
                  THEN <<"docs/ARCHITECTURE.md does not exist">> ELSE <<>>),
          staleDocs |->
              SelectSeq(<<ReadmeDoc, ArchitectureDoc>>,
                        LAMBDA doc : IsStale(state, files, doc))]

\* writeReadme / writeArchitecture for the documents to generate, then
\* updateState; lastGenerated keeps what each document's last generation was,
\* args the command of the latest run (process.argv)
WriteAndUpdate(command, readmeUpdated, archUpdated, commitHash) ==
    LET written == {d \in Documents :
                      \/ d = ReadmeDoc /\ readmeUpdated
                      \/ d = ArchitectureDoc /\ archUpdated}
        files == [d \in Documents |-> IF d \in written THEN "generated" ELSE docFiles[d]]
    IN  /\ docFiles' = files
        /\ stateFile' = [exists |-> TRUE,
                         state |-> updateState(readmeUpdated, archUpdated, clock,
                                               commitHash, files)]
        /\ lastGenerated' =
              [d \in Documents |->
                  IF d \in written
                  THEN [done |-> TRUE, time |-> clock, hash |-> ContentHash.generated]
                  ELSE lastGenerated[d]]
        /\ clock' = clock + 1
        /\ changes' = Null
        /\ args' = [command |-> command]
        /\ UNCHANGED <<pc, mergeVars, detectVars, detected, loadVars, dirVars, exception,
                       result, returned>>

RunReadme ==
    /\ clock < MaxClock
    /\ \E commitHash \in CommitHashes : WriteAndUpdate("readme", TRUE, FALSE, commitHash)

RunArchitecture ==
    /\ clock < MaxClock
    /\ \E commitHash \in CommitHashes : WriteAndUpdate("architecture", FALSE, TRUE, commitHash)

RunFull ==
    /\ clock < MaxClock
    /\ \E commitHash \in CommitHashes : WriteAndUpdate("full", TRUE, TRUE, commitHash)

RunPreCommit ==
    \E skillsExists \in BOOLEAN, changed \in SUBSET ChangeKinds, commitHash \in CommitHashes :
        LET found == detectChanges(FALSE, loadState(stateFile), skillsExists, changed,
                                   docFiles)
        IN  IF ~found.needsReadmeUpdate /\ ~found.needsArchitectureUpdate
            THEN /\ changes' = Null
                 /\ args' = [command |-> "pre-commit"]
                 /\ UNCHANGED <<pc, mergeVars, detectVars, detected, loadVars, dirVars,
                                exception, result, returned, stateFile, docFiles, clock,
                                lastGenerated>>
            ELSE /\ clock < MaxClock
                 /\ WriteAndUpdate("pre-commit", found.needsReadmeUpdate,
                                   found.needsArchitectureUpdate, commitHash)

\* ChangeDetector.ts run on its own, with or without --force
DetectChanges ==
    /\ \E force \in BOOLEAN, skillsExists \in BOOLEAN, changed \in SUBSET ChangeKinds :
          changes' = detectChanges(force, loadState(stateFile), skillsExists, changed,
                                   docFiles)
    /\ args' = [command |-> "detect"]
    /\ UNCHANGED <<pc, mergeVars, detectVars, detected, loadVars, dirVars, exception,
                   result, returned, stateFile, docFiles, clock, lastGenerated>>

\* somebody edits a document by hand
ManualEdit ==
    /\ \E d \in Documents :
          /\ docFiles[d] = "generated"
          /\ docFiles' = [docFiles EXCEPT ![d] = "edited"]
    /\ changes' = Null
    /\ UNCHANGED <<pc, mergeVars, detectVars, detected, loadVars, dirVars, exception,
                   result, callVars, stateFile, clock, lastGenerated>>

InitAutoDocs ==
    /\ NoDetection /\ NoCall
    /\ pc = "cli"
    /\ stateFile = NoStateFile
    /\ docFiles \in [Documents -> {"absent", "edited"}]
    /\ clock = 1
    /\ lastGenerated = [d \in Documents |-> NeverGenerated]
    /\ changes = Null

NextAutoDocs ==
    \/ RunPreCommit
    \/ RunReadme
    \/ RunArchitecture
    \/ RunFull
    \/ DetectChanges
    \/ ManualEdit

SpecAutoDocs == InitAutoDocs /\ [][NextAutoDocs]_vars

(***************************************************************************)
(* Claims about mergeIndices                                               *)
(***************************************************************************)
Entries(index) == IF index.isNull THEN <<>> ELSE index.entries
Keys(index) == {Entries(index)[i].key : i \in 1..Len(Entries(index))}
Entry(index, name) == Get(Entries(index), name)
IsDisabled(ref) == Truthy(ref, "disabled")
SetsOverride(ref) == Truthy(ref, "overrideTriggers")

\* the names of the additive case: in both layers, the project entry neither
\* disabled nor setting overrideTriggers
AdditiveNames ==
    {name \in Keys(userIndex) \cap Keys(projectIndex) :
        /\ ~IsDisabled(Entry(projectIndex, name))
        /\ ~SetsOverride(Entry(projectIndex, name))}

\* C3: the catalog returned by mergeIndices has no entry whose disabled flag
\* is true, whichever layer the entry came from.
C3_NoDisabledEntry ==
    pc = "merged" =>
        \A i \in 1..Len(mergedIndex.entries) : ~IsDisabled(mergedIndex.entries[i].ref)

NonTriggerFields == {"path", "priority", "maxTokens", "description"}

\* C5: in the additive case every non-trigger field of the merged entry is
\* the project entry's: present exactly when the project entry has it, and
\* with the project entry's value.
C5_ProjectFieldsKept ==
    pc = "merged" =>
        \A name \in AdditiveNames :
            /\ name \in Keys(mergedIndex)
            /\ \A f \in NonTriggerFields :
                  /\ f \in DOMAIN Entry(mergedIndex, name)
                       <=> f \in DOMAIN Entry(projectIndex, name)
                  /\ f \in DOMAIN Entry(projectIndex, name)
                       => Entry(mergedIndex, name)[f] = Entry(projectIndex, name)[f]

\* C5 witness: user entry Auth (priority 80, keywords login) and project
\* entry auth (priority 90, keywords oauth) give priority 90 and keywords
\* login, oauth.
C5_Witness ==
    /\ pc = "merged"
    /\ "auth" \in AdditiveNames
    /\ Entry(userIndex, "auth").name = "Auth"
    /\ Entry(userIndex, "auth").priority = 80
    /\ Entry(userIndex, "auth").triggers.keywords = <<Login>>
    /\ Entry(projectIndex, "auth").priority = 90
    /\ Entry(mergedIndex, "auth").priority = 90
    /\ Entry(mergedIndex, "auth").triggers.keywords = <<Login, Oauth>>

\* C6: no name of a disabled project entry is a key of the merged catalog,
\* whether or not the user catalog has the name and whatever the entry's
\* overrideTriggers flag.
C6_DisabledProjectEntryRemoved ==
    pc = "merged" =>
        \A name \in Keys(projectIndex) :
            IsDisabled(Entry(projectIndex, name)) => name \notin Keys(mergedIndex)

\* C6 witness: a disabled project entry that sets overrideTriggers removed a
\* user entry, and another disabled project entry had no user entry.
C6_Witness ==
    /\ pc = "merged"
    /\ \E name \in Keys(projectIndex) \cap Keys(userIndex) :
          /\ IsDisabled(Entry(projectIndex, name))
          /\ SetsOverride(Entry(projectIndex, name))
          /\ name \notin Keys(mergedIndex)
    /\ \E name \in Keys(projectIndex) \ Keys(userIndex) :
          /\ IsDisabled(Entry(projectIndex, name))
          /\ name \notin Keys(mergedIndex)

C9_PriorityNonIncreasing ==
    pc = "detected" =>
        \A i, j \in 1..Len(detected) : i < j => detected[i].priority >= detected[j].priority

\* C9 witness: two detected entries that the catalog lists in increasing
\* priority.
C9_Witness ==
    /\ pc = "detected"
    /\ Len(detected) >= 2
    /\ \E i, j \in 1..Len(mergedIndex.entries) :
          /\ i < j
          /\ mergedIndex.entries[i].ref.priority < mergedIndex.entries[j].ref.priority
          /\ \E a, b \in 1..Len(detected) :
                /\ detected[a].module = mergedIndex.entries[j].key
                /\ detected[b].module = mergedIndex.entries[i].key

\* a trigger kind produced evidence for an entry
KindFired(ref, kind) ==
    /\ HasLength(ref.triggers, kind)
    /\ CASE kind = "filePatterns" -> Len(checkFilePatterns(ref.triggers.filePatterns, cwd)) > 0
         [] kind = "imports" -> TruthyString(checkImports(ref.triggers.imports, cwd))
         [] kind = "dependencies" ->
                TruthyString(checkDependencies(ref.triggers.dependencies, cwd))
         [] kind = "keywords" ->
                /\ prompt.given /\ prompt.text # EmptyString
                /\ TruthyString(checkKeywords(ref.triggers.keywords, prompt.text))

FiredKinds(ref) == {kind \in TriggerKinds : KindFired(ref, kind)}

\* C10: an entry of the catalog is in the result of detectModules, once, if
\* and only if at least one of its four trigger kinds produced evidence.
C10_DetectedIffEvidence ==
    pc = "detected" =>
        \A i \in 1..Len(mergedIndex.entries) :
            Cardinality({r \in 1..Len(detected) : detected[r].module = mergedIndex.entries[i].key})
                = IF FiredKinds(mergedIndex.entries[i].ref) # {} THEN 1 ELSE 0

\* C10 witness: an entry of the lowest priority, asking for more tokens than
\* the budget, is detected on one kind alone while another kind it lists did
\* not fire, and another entry without evidence is left out.
C10_Witness ==
    /\ pc = "detected"
    /\ \E i \in 1..Len(mergedIndex.entries) :
          /\ mergedIndex.entries[i].ref.priority = 10
          /\ mergedIndex.entries[i].ref.maxTokens > MAX_TOTAL_TOKENS
          /\ Cardinality(FiredKinds(mergedIndex.entries[i].ref)) = 1
          /\ \E kind \in TriggerKinds :
                /\ HasLength(mergedIndex.entries[i].ref.triggers, kind)
                /\ ~KindFired(mergedIndex.entries[i].ref, kind)
          /\ \E r \in 1..Len(detected) : detected[r].module = mergedIndex.entries[i].key
    /\ \E i \in 1..Len(mergedIndex.entries) :
          /\ HasLength(mergedIndex.entries[i].ref.triggers, "keywords")
          /\ FiredKinds(mergedIndex.entries[i].ref) = {}
          /\ \A r \in 1..Len(detected) : detected[r].module # mergedIndex.entries[i].key

(***************************************************************************)
(* Claims about loadReferences                                             *)
(***************************************************************************)
\* indices of the entries loaded into the output so far
AcceptedIndices == {events[e].k : e \in {e \in 1..Len(events) : events[e].ev = "read"}}

RECURSIVE SumTokens(_)
SumTokens(S) ==
    IF S = {} THEN 0
    ELSE LET k == CHOOSE k \in S : TRUE
         IN  detected[k].maxTokens + SumTokens(S \ {k})

\* C1: after every iteration of the loop of loadReferences, the sum of
\* maxTokens over the entries loaded into the output is at most
\* MAX_TOTAL_TOKENS.
C1_AcceptedWithinCeiling == SumTokens(AcceptedIndices) <= MAX_TOTAL_TOKENS

\* C1 witness: the loop has ended with the ceiling reached exactly and an
\* entry refused for it.
C1_Witness ==
    /\ pc = "loaded"
    /\ SumTokens(AcceptedIndices) = MAX_TOTAL_TOKENS
    /\ \E e \in 1..Len(events) : events[e].ev = "budget_skip"

\* the running total at the moment entry e is tested: the maxTokens of the
\* entries loaded before it
RunningTotalBefore(e) ==
    SumTokens({events[j].k : j \in {j \in 1..(e - 1) : events[j].ev = "read"}})

\* C2: loadReferences walks the list in order; an entry is skipped for
\* budget exactly when the running total plus its maxTokens exceeds the
\* ceiling at its turn; a skip leaves the total unchanged and the walk goes
\* on to every later entry.
C2_SkipExactlyWhenOverBudget ==
    /\ Len(events) = idx - 1
    /\ \A e \in 1..Len(events) :
          /\ events[e].k = e
          /\ events[e].ev = "budget_skip"
               <=> RunningTotalBefore(e) + detected[e].maxTokens > MAX_TOTAL_TOKENS
    /\ totalTokens = RunningTotalBefore(Len(events) + 1)
    /\ pc = "loaded" => Len(events) = Len(detected)

\* C2 witness: maxTokens <<5000, 5000, 500>> under the ceiling of 8000: the
\* first and third entries are loaded, only the second is skipped.
C2_Witness ==
    /\ pc = "loaded"
    /\ Len(detected) = 3
    /\ <<detected[1].maxTokens, detected[2].maxTokens, detected[3].maxTokens>>
         = <<5000, 5000, 500>>
    /\ <<events[1].ev, events[2].ev, events[3].ev>> = <<"read", "budget_skip", "read">>
    /\ loadedModules = <<detected[1].module, detected[3].module>>

\* the evidence list detectModules returned for a key, empty when the key is
\* not in the result
EvidenceOf(key) ==
    IF \E r \in 1..Len(detected) : detected[r].module = key
    THEN detected[CHOOSE r \in 1..Len(detected) : detected[r].module = key].triggers
    ELSE <<>>

EvidenceKinds(key) == {EvidenceOf(key)[j][1] : j \in 1..Len(EvidenceOf(key))}

\* C13: a failing check of one trigger kind for one entry (a pattern that
\* cannot be scanned, a search process that errors, a manifest that cannot be
\* parsed or read) gives no evidence from the failed check and nothing else:
\* detectModules returns, the kinds that did not fail give the evidence
\* they give without the failure, for that entry and for every other entry.
C13_CheckFailureIsNoMatch ==
    /\ pc # "catch"
    /\ pc = "detected" =>
          \A i \in 1..Len(mergedIndex.entries) :
              LET key == mergedIndex.entries[i].key
                  triggers == mergedIndex.entries[i].ref.triggers
                  valid == IF "filePatterns" \in DOMAIN triggers
                           THEN SelectSeq(triggers.filePatterns,
                                          LAMBDA q : q \notin InvalidPatterns)
                           ELSE <<>>
              IN  /\ cwd.grepFails => "import" \notin EvidenceKinds(key)
                  /\ "files" \in EvidenceKinds(key)
                        <=> \E q \in 1..Len(valid) : Len(ScanPattern(valid[q], cwd)) > 0
                  /\ (cwd.pkg.state = "invalid" /\ cwd.req.state # "ok")
                        => "dependency" \notin EvidenceKinds(key)
                  /\ (cwd.pkg.state = "invalid" /\ cwd.req.state = "ok"
                            /\ HasLength(triggers, "dependencies"))
                        => ("dependency" \in EvidenceKinds(key)
                              <=> \E d \in 1..Len(triggers.dependencies) :
                                     Includes(ToLowerCase(cwd.req.text),
                                              ToLowerCase(triggers.dependencies[d])))
                  /\ "keyword" \in EvidenceKinds(key)
                        <=> /\ HasLength(triggers, "keywords")
                            /\ prompt.given /\ prompt.text # EmptyString
                            /\ TruthyString(checkKeywords(triggers.keywords, prompt.text))

\* C13 witness: the search process errors and package.json is invalid; an
\* entry listing imports is detected by requirements.txt and by its keyword,
\* without import evidence, an entry whose
\* first pattern is invalid is detected by its second pattern, and the entry
\* after it in the catalog is evaluated and detected as well.
C13_Witness ==
    /\ pc = "detected"
    /\ cwd.grepFails /\ cwd.pkg.state = "invalid"
    /\ Len(mergedIndex.entries) = 2
    /\ \E i, j \in 1..2 :
          /\ i # j
          /\ HasLength(mergedIndex.entries[i].ref.triggers, "imports")
          /\ EvidenceKinds(mergedIndex.entries[i].key) = {"dependency", "keyword"}
          /\ HasLength(mergedIndex.entries[j].ref.triggers, "filePatterns")
          /\ mergedIndex.entries[j].ref.triggers.filePatterns[1] \in InvalidPatterns
          /\ EvidenceKinds(mergedIndex.entries[j].key) = {"files"}

\* the detected entries whose body was loaded into the output
LoadedIndices == {k \in 1..Len(detected) :
                    \E m \in 1..Len(loadedModules) : loadedModules[m] = detected[k].module}

\* C14: an entry that passed the budget check and whose body could not be
\* read is left out of the output, the running total does not count its
\* maxTokens, and the entries after it are still processed.
C14_FailedReadLeftOut ==
    /\ \A e \in 1..Len(events) :
          events[e].ev = "read_failed" =>
              /\ events[e].k \notin LoadedIndices
              /\ \A c \in 1..Len(loadedContent) :
                    loadedContent[c].module # detected[events[e].k].module
              /\ pc = "load" => idx > events[e].k
              /\ pc = "loaded" =>
                    \A k \in (events[e].k + 1)..Len(detected) :
                        \E later \in (e + 1)..Len(events) : events[later].k = k
    /\ totalTokens = SumTokens(LoadedIndices)
    /\ Len(loadedContent) = Len(loadedModules)

\* C14 witness: two entries of 5000 tokens each; the read of the first fails
\* and the second is loaded, which it could not be had the first been counted.
C14_Witness ==
    /\ pc = "loaded"
    /\ Len(detected) = 2
    /\ <<detected[1].maxTokens, detected[2].maxTokens>> = <<5000, 5000>>
    /\ <<events[1].ev, events[2].ev>> = <<"read_failed", "read">>
    /\ loadedModules = <<detected[2].module>>
    /\ content = <<Header(<<detected[2].module>>), Section(detected[2])>>

\* the keywords of a list that occur in the prompt, both lower-cased
OccurringKeywords(keywords, text) ==
    {k \in 1..Len(keywords) : Includes(ToLowerCase(text), ToLowerCase(keywords[k]))}

\* C19: for an entry with a non-empty keywords list and a supplied prompt,
\* the keyword evidence is the first keyword of the list that occurs in the
\* prompt, compared without case, and there is none when no keyword occurs;
\* without a prompt (none passed, or the empty string) there is no keyword
\* evidence.
C19_FirstOccurringKeyword ==
    pc = "detected" =>
        \A i \in 1..Len(mergedIndex.entries) :
            LET key == mergedIndex.entries[i].key
                triggers == mergedIndex.entries[i].ref.triggers
                found == {EvidenceOf(key)[j][2] :
                            j \in {j \in 1..Len(EvidenceOf(key)) :
                                      EvidenceOf(key)[j][1] = "keyword"}}
            IN  HasLength(triggers, "keywords") =>
                    IF /\ prompt.given /\ prompt.text # EmptyString
                       /\ OccurringKeywords(triggers.keywords, prompt.text) # {}
                    THEN found = {triggers.keywords[
                                     Min(OccurringKeywords(triggers.keywords, prompt.text))]}
                    ELSE found = {}

\* C11: detectAndLoadModuleRules never raises to its caller: whatever fails
\* in loading, merging, detection or assembly, the call goes on until it
\* returns, and what it returns is null or the assembled text.
C11_NeverRaises ==
    /\ pc # "raised"
    /\ pc # "returned" => ENABLED Next
    /\ pc = "returned" => (result.isNull \/ result = Text(content))
    /\ (pc = "returned" /\ exception # "none") => result.isNull

\* C11 witness: a catalog entry read from index.json has no triggers object,
\* detectModules throws on it, and the call has returned null.
C11_Witness ==
    /\ pc = "returned"
    /\ exception = "detectModules"
    /\ Len(mergedIndex.entries) > 0
    /\ result.isNull

\* C12: the result is null when neither references directory exists, when
\* the merged catalog is empty, when nothing is detected and when nothing is
\* loaded; a result that is not null is a header naming at least one loaded
\* entry followed by one section for each.
C12_NullUnlessEntryLoaded ==
    pc = "returned" =>
        /\ (~userDir.exists /\ ~projectDir.exists) => result.isNull
        /\ (mergedIndex.isNull \/ Len(mergedIndex.entries) = 0) => result.isNull
        /\ Len(detected) = 0 => result.isNull
        /\ Len(loadedModules) = 0 => result.isNull
        /\ ~result.isNull =>
              /\ Len(result.text) >= 2
              /\ result.text[1] = Header(loadedModules)
              /\ Len(loadedModules) = Len(result.text) - 1
              /\ \A c \in 2..Len(result.text) :
                    /\ result.text[c].kind = "section"
                    /\ result.text[c].module = loadedModules[c - 1]

\* C12 witness: entries were detected, every one of them was skipped for
\* budget or could not be read, and the call has returned null without any
\* exception.
C12_Witness ==
    /\ pc = "returned"
    /\ exception = "none"
    /\ Len(detected) > 0
    /\ Len(events) = Len(detected)
    /\ loadedModules = <<>>
    /\ result.isNull

KeysAreLowerCased(index) ==
    index.isNull \/ \A i \in 1..Len(index.entries) :
                        /\ "name" \in DOMAIN index.entries[i].ref
                        /\ index.entries[i].key = ToLowerCase(index.entries[i].ref.name)

\* C17: in the catalogs loadReferenceIndex returned, from index.json or from
\* the scan, every key is the lower-cased display name of its entry, so the
\* merged catalog never holds two entries whose keys differ only by case.
C17_KeysAreLowerCasedNames ==
    /\ KeysAreLowerCased(userIndex)
    /\ KeysAreLowerCased(projectIndex)
    /\ pc = "merged" =>
          \A i, j \in 1..Len(mergedIndex.entries) :
              ToLowerCase(mergedIndex.entries[i].key) = ToLowerCase(mergedIndex.entries[j].key)
                  => i = j

\* C18: loadReferenceIndex returns null exactly when the references
\* directory does not exist; for a directory that exists it returns a
\* catalog, and never fails.
C18_NullIffNoDirectory ==
    /\ exception # "loadReferenceIndex"
    /\ pc \notin {"start", "catch"} => (userIndex.isNull <=> ~userDir.exists)
    /\ pc \notin {"start", "user_loaded", "catch"} =>
          (projectIndex.isNull <=> ~projectDir.exists)

\* C20: when a cycle has returned without an exception, every reference
\* document that was read in full during the cycle is the file of an entry
\* that detectModules returned and that passed the budget check at its turn;
\* the reads of loadReferences come after a budget check that held.
C20_BodyReadOnlyIfAccepted ==
    /\ \A e \in 1..Len(events) :
          events[e].ev \in {"read", "read_failed"} =>
              RunningTotalBefore(e) + detected[events[e].k].maxTokens <= MAX_TOTAL_TOKENS
    /\ (pc = "returned" /\ exception = "none") =>
          \A f \in 1..Len(fileReads) :
              \E e \in 1..Len(events) :
                  /\ events[e].ev \in {"read", "read_failed"}
                  /\ detected[events[e].k].path = fileReads[f]

\* the place of a kind of evidence in an evidence list
KindRank == [files |-> 1, import |-> 2, dependency |-> 3, keyword |-> 4]

\* the catalog entry a detection result was produced from
SourceEntry(r) ==
    mergedIndex.entries[CHOOSE i \in 1..Len(mergedIndex.entries) :
                            mergedIndex.entries[i].key = detected[r].module].ref

\* C23: the evidence list of every detection result has one to four strings,
\* at most one per trigger kind, in the order files, import, dependency,
\* keyword; the files string names at most the first two paths matched by one
\* pattern; path, priority and maxTokens are those of the catalog entry.
C23_EvidenceListShape ==
    pc = "detected" =>
        \A r \in 1..Len(detected) :
            LET ev == detected[r].triggers
            IN  /\ Len(ev) \in 1..4
                /\ \A a, b \in 1..Len(ev) : a < b => KindRank[ev[a][1]] < KindRank[ev[b][1]]
                /\ \A a \in 1..Len(ev) :
                      ev[a][1] = "files" =>
                          /\ Len(ev[a][2]) \in 1..2
                          /\ \E q \in 1..Len(SourceEntry(r).triggers.filePatterns) :
                                LET pattern == SourceEntry(r).triggers.filePatterns[q]
                                IN  /\ pattern \notin InvalidPatterns
                                    /\ ev[a][2] = Take(ScanPattern(pattern, cwd), 2)
                /\ detected[r].path = SourceEntry(r).path
                /\ detected[r].priority = SourceEntry(r).priority
                /\ detected[r].maxTokens = SourceEntry(r).maxTokens

\* C23 witness: a result whose files string names the first two of the four
\* paths its pattern matches, next to a result with two other kinds of
\* evidence.
C23_Witness ==
    /\ pc = "detected"
    /\ Len(cwd.files) = 4
    /\ \E r, o \in 1..Len(detected) :
          /\ detected[r].triggers = <<<<"files", Take(cwd.files, 2)>>>>
          /\ Len(detected[o].triggers) = 2
          /\ detected[o].triggers[1][1] # "files"

\* the place of a result's entry in the iteration over the catalog
CatalogPosition(r) ==
    CHOOSE i \in 1..Len(mergedIndex.entries) : mergedIndex.entries[i].key = detected[r].module

\* C25: two results of equal priority are returned in the order in which
\* their entries were iterated in the catalog.
C25_TiesKeepEncounterOrder ==
    pc = "detected" =>
        \A a, b \in 1..Len(detected) :
            (a < b /\ detected[a].priority = detected[b].priority)
                => CatalogPosition(a) < CatalogPosition(b)

\* C25 witness: two entries of equal priority are both detected.
C25_Witness ==
    /\ pc = "detected"
    /\ Len(detected) = 2
    /\ detected[1].priority = detected[2].priority
    /\ detected[1].module = mergedIndex.entries[1].key
    /\ detected[2].module = mergedIndex.entries[2].key

\* the detected entries that were accepted and read, in processing order
ReadEntries ==
    LET reads == SelectSeq(events, LAMBDA ev : ev.ev = "read")
    IN  [i \in 1..Len(reads) |-> detected[reads[i].k]]

\* C27: the output of loadReferences, when not empty, is a header naming
\* exactly the entries that were accepted and read, in processing order,
\* followed by one section for each in the same order; these entries are a
\* subsequence of the input list; an entry skipped for budget or unreadable
\* is neither in the header nor in a section; the output is empty exactly
\* when no entry was read.
C27_OutputNamesLoadedEntries ==
    pc = "loaded" =>
        /\ content = <<>> <=> Len(ReadEntries) = 0
        /\ content # <<>> =>
              /\ content[1] = Header([i \in 1..Len(ReadEntries) |-> ReadEntries[i].module])
              /\ Len(content) = Len(ReadEntries) + 1
              /\ \A i \in 1..Len(ReadEntries) : content[i + 1] = Section(ReadEntries[i])
              /\ \A e \in 1..Len(events) :
                    events[e].ev # "read" =>
                        /\ \A m \in 1..Len(content[1].modules) :
                              content[1].modules[m] # events[e].module
                        /\ \A c \in 2..Len(content) : content[c].module # events[e].module
        /\ \A e, f \in 1..Len(events) : e < f => events[e].k < events[f].k

\* C27 witness: of four entries the first and the fourth are loaded, the
\* second could not be read and the third was skipped for budget.
C27_Witness ==
    /\ pc = "loaded"
    /\ Len(detected) = 4
    /\ [e \in 1..4 |-> events[e].ev] = <<"read", "read_failed", "budget_skip", "read">>
    /\ content = <<Header(<<detected[1].module, detected[4].module>>),
                   Section(detected[1]), Section(detected[4])>>

HasNumericFields(index) ==
    index.isNull \/ \A i \in 1..Len(index.entries) :
                        /\ "priority" \in DOMAIN index.entries[i].ref
                        /\ index.entries[i].ref.priority \in Nat
                        /\ "maxTokens" \in DOMAIN index.entries[i].ref
                        /\ index.entries[i].ref.maxTokens \in Nat

\* the entries built by scanning a directory take 50 and 2000 for the
\* fields their document omits
ScanDefaultsApplied(dir, index) ==
    (FallsBackToScan(dir) /\ ~index.isNull) =>
        \A d \in 1..Len(dir.docs) :
            (IsReferenceFile(dir.docs[d]) /\ ScanAccepts(dir.docs[d])) =>
                LET fm == dir.docs[d].frontmatter
                    ref == Get(index.entries, ToLowerCase(fm.name))
                IN  /\ ref.priority = IF "priority" \in DOMAIN fm THEN fm.priority ELSE 50
                    /\ ref.maxTokens = IF "maxTokens" \in DOMAIN fm THEN fm.maxTokens ELSE 2000

\* C26: every entry of a catalog returned by loadReferenceIndex, read from
\* index.json or built by scanning, has a numeric priority and a numeric
\* maxTokens, 50 and 2000 when the source record omits them.
C26_NumericDefaultsOnBothPaths ==
    /\ HasNumericFields(userIndex)
    /\ HasNumericFields(projectIndex)
    /\ pc \notin {"start", "catch"} => ScanDefaultsApplied(userDir, userIndex)
    /\ pc \notin {"start", "user_loaded", "catch"}
          => ScanDefaultsApplied(projectDir, projectIndex)

(***************************************************************************)
(* Claims about the check functions                                        *)
(***************************************************************************)
\* the files of the tree a valid pattern matches outside node_modules and
\* .git, in scan order
NonExcludedMatches(pattern, tree) ==
    IF pattern \in InvalidPatterns THEN <<>>
    ELSE SelectSeq(tree.files,
                   LAMBDA f : f \in GlobTable[pattern] /\ ~FileInfo[f].inExcludedDir)

\* the positions of the patterns that yield a non-excluded match
YieldingPatterns(patterns, tree) ==
    {i \in 1..Len(patterns) : Len(NonExcludedMatches(patterns[i], tree)) > 0}

\* C22: checkFilePatterns returns the first three, at most, non-excluded
\* matches of the first pattern in list order that has any, and nothing when
\* no pattern has; invalid patterns in front of it are passed over, and no
\* pattern behind it is scanned.
C22_FirstYieldingPatternOnly ==
    pc = "done" =>
        LET yielding == YieldingPatterns(args.patterns, args.cwd)
        IN  /\ Len(returned.matches) <= 3
            /\ yielding = {} =>
                  /\ returned.matches = <<>>
                  /\ returned.scanned = args.patterns
            /\ yielding # {} =>
                  LET all == NonExcludedMatches(args.patterns[Min(yielding)], args.cwd)
                  IN  /\ Len(returned.matches) = IF Len(all) < 3 THEN Len(all) ELSE 3
                      /\ \A k \in 1..Len(returned.matches) : returned.matches[k] = all[k]
                      /\ returned.scanned = SubSeq(args.patterns, 1, Min(yielding))

\* C22 witness: the first pattern is invalid, the second matches only a file
\* under node_modules, the third matches four files of which three are
\* returned.
C22_Witness ==
    /\ pc = "done"
    /\ args.patterns = <<"[bad", "**/jwt/**", "**/*.ts">>
    /\ Len(args.cwd.files) = 6
    /\ returned.matches = <<"src/auth/b.ts", "src/auth/a.ts", "src/auth/token.ts">>

YamlOf(lines) == SubSeq(lines, 2, ClosingFence(lines) - 1)

IsItemLine(line) == StartsWith(Trim(line), <<"-", " ">>)
IsKeyLine(line) ==
    /\ Trim(line) # <<>>
    /\ ~StartsWith(Trim(line), <<"#">>)
    /\ ~IsItemLine(line)
    /\ IndexOf(line, ":") > 0
KeyOf(line) == Trim(Slice(line, 0, IndexOf(line, ":")))
ValueOf(line) == Trim(Slice(line, IndexOf(line, ":") + 1, Len(line)))

\* `key:` for one of the four trigger kinds: the start of a `- ` list
OpensList(line) ==
    IsKeyLine(line) /\ KeyOf(line) \in ArrayParents /\ ValueOf(line) \in {<<>>, <<"{">>}

\* `key: [a, b]`
IsInlineArrayLine(line) ==
    /\ IsKeyLine(line)
    /\ StartsWith(StripQuotes(ValueOf(line)), <<"[">>)
    /\ EndsWith(StripQuotes(ValueOf(line)), <<"]">>)

\* the keys under frontmatter.triggers
TriggerKeys(frontmatter) ==
    IF HasTriggers(frontmatter)
    THEN {Get(frontmatter, KeyTriggers).fields[i].key :
            i \in 1..Len(Get(frontmatter, KeyTriggers).fields)}
    ELSE {}

\* C21: a trigger-kind key written as a `- ` list or as an inline array is
\* not a top-level key of the parsed front matter and (no `triggers:` line
\* following it) is a key under `triggers`, whether or not a `triggers:` line
\* came before; no key other than the four trigger kinds is under `triggers`.
C21_TriggerKindsUnderTriggers ==
    (pc = "done" /\ ClosingFence(args.content) # 0) =>
        LET yaml == YamlOf(args.content)
            frontmatter == returned.frontmatter
        IN  /\ \A j \in 1..Len(yaml) :
                  (\/ OpensList(yaml[j])
                   \/ IsInlineArrayLine(yaml[j]) /\ KeyOf(yaml[j]) \in ArrayParents)
                  => /\ ~HasKey(frontmatter, KeyOf(yaml[j]))
                     /\ (\A l \in (j + 1)..Len(yaml) :
                            ~(IsKeyLine(yaml[l]) /\ KeyOf(yaml[l]) = KeyTriggers))
                        => KeyOf(yaml[j]) \in TriggerKeys(frontmatter)
            /\ TriggerKeys(frontmatter) \subseteq ArrayParents

\* the values of the `- ` items from the front of lines up to the next key
\* line
RECURSIVE ItemsUntilKeyLine(_)
ItemsUntilKeyLine(lines) ==
    IF lines = <<>> \/ IsKeyLine(Head(lines)) THEN <<>>
    ELSE IF IsItemLine(Head(lines))
    THEN <<StripQuotes(Trim(Slice(Trim(Head(lines)), 2, Len(Trim(Head(lines))))))>>
           \o ItemsUntilKeyLine(Tail(lines))
    ELSE ItemsUntilKeyLine(Tail(lines))

\* the position of the last key line for key
LastKeyLine(yaml, key) ==
    CHOOSE j \in 1..Len(yaml) :
        /\ IsKeyLine(yaml[j]) /\ KeyOf(yaml[j]) = key
        /\ \A l \in (j + 1)..Len(yaml) : ~(IsKeyLine(yaml[l]) /\ KeyOf(yaml[l]) = key)

\* C29: a trigger list that was opened by a `key:` line holds exactly the
\* `- ` items written between that line and the next key line of any kind:
\* an item after another key line, or with no list open, is in no list.
C29_ItemsJoinNearestOpenList ==
    (pc = "done" /\ ClosingFence(args.content) # 0) =>
        LET yaml == YamlOf(args.content)
            frontmatter == returned.frontmatter
        IN  \A key \in TriggerKeys(frontmatter) \cap ArrayParents :
                OpensList(yaml[LastKeyLine(yaml, key)])
                => Get(Get(frontmatter, KeyTriggers).fields, key).items
                     = ItemsUntilKeyLine(SubSeq(yaml, LastKeyLine(yaml, key) + 1, Len(yaml)))

(***************************************************************************)
(* Claims about AutoDocs                                                   *)
(***************************************************************************)
\* the last-generation timestamp the state holds for a document
GenerationTime(state, doc) ==
    IF doc = ReadmeDoc THEN state.lastReadmeGeneration
    ELSE state.lastArchitectureGeneration

\* the results of detectChanges that come from before the hash comparison
EarlyReturns ==
    {"Force regeneration requested", "First run - no previous state tracked",
     "No changed files detected"}

\* C30: after any sequence of commands the saved state holds, for every
\* document ever generated, the time and the content hash of its last
\* generation, whichever document the latest command wrote; and a
\* detectChanges that gets to compare hashes reports a document as stale that
\* was edited by hand since its last generation.
C30_StateKeepsLastGeneration ==
    /\ \A d \in Documents :
          lastGenerated[d].done =>
              /\ stateFile.exists
              /\ GenerationTime(stateFile.state, d) = lastGenerated[d].time
              /\ d \in DOMAIN stateFile.state.filesAtLastGeneration
              /\ stateFile.state.filesAtLastGeneration[d] = lastGenerated[d].hash
    /\ (changes # Null /\ \A i \in 1..Len(changes.triggers) : changes.triggers[i] \notin EarlyReturns)
          => \A d \in Documents :
                (lastGenerated[d].done /\ docFiles[d] = "edited")
                    => \E i \in 1..Len(changes.staleDocs) : changes.staleDocs[i] = d

====
